---- MODULE Spec2Model ----
(***************************************************************************)
(* Verification model of liusoon/stock: the trading-calendar generator and *)
(* its month cache (src/src/lib/useTradeCalendar.ts), the batch-fetch      *)
(* aggregation endpoint (src/src/app/api/tushare/batch-fetch/route.ts) and *)
(* the market-data endpoint (src/unnamed/part_005).                        *)
(*                                                                         *)
(* Strings of the program are sequences of one-character strings, so that  *)
(* formatting, padding and key concatenation are computed, not assumed.    *)
(***************************************************************************)
EXTENDS Integers, Sequences, FiniteSets, TLC

VARIABLES
    \* ---- the running process
    timeZone,       \* time-zone offset of the process, hours east of UTC
    \* ---- functions exercised on their own
    callIn,         \* TushareClient.call: what the HTTP exchange gives
    callOut,        \* TushareClient.call: its return value or exception
    statsIn,        \* generateBatchStats: the records and the metadata
    statsOut,       \* generateBatchStats: the statistics
    \* ---- calendar generator (transformToCalendarDates as a pure function)
    genIn,          \* the inputs of one generation
    genOut,         \* the generation's result: done flag and CalendarDate[]
    \* ---- calendar cache (the useTradeCalendar hook)
    heap,           \* MonthCalendarData objects allocated so far, each held as
                    \* the arguments it was generated from (its dates and
                    \* tradingDays are DatesOf and TradingDaysOf of it); a
                    \* reference is an index of this sequence
    calendarData,   \* React state, as rendered: Map monthKey -> reference
    pendingUpdates, \* setCalendarData updates queued and not yet rendered
    exchange,       \* React state [shown, next]: rendered value and the value
                    \* after the queued setExchange writes
    loading,        \* React state [shown, next] of the loading flag
    error,          \* React state [shown, next] of the error message
    calls,          \* fetchMonthCalendar invocations, in order of invocation
    fetchCount,     \* marker fetches issued (fetch of /api/tushare/trade-calendar)
    genCount,       \* calendar generations performed
    warm,           \* history: key -> reference returned by the last completed
                    \* non-forced call of the key, since the last forced
                    \* refresh of the key or clearCache
    lastWrite,      \* history: key -> reference of the last setCalendarData
                    \* write of the key since the last clearCache call
    cleared,        \* history [called, held, calls]: clearCache has been called,
                    \* the keys the cache held and the number of invocations
                    \* made when it was last called
    \* ---- aggregation endpoints (batch-fetch and market-data GET handlers)
    req,            \* the request: endpoint and query parameters
    pc,             \* position of the handler
    upstream,       \* log of the upstream calls issued, in order
    inflight,       \* upstream calls issued and not yet settled: call ->
                    \* its phase (rate-limit delay, or sent) and the time
                    \* left until the delay ends or the answer arrives
    sinceDispatch,  \* time since the last request was sent to the provider,
                    \* counted up to the rate-limit delay
    dispatchGaps,   \* for each request sent: sinceDispatch when it was sent
    roster,         \* stockBasicData / limitedStockData
    dailyDataMap,   \* quote overlay map or undefined
    basicIndicatorsMap, \* indicator overlay map or undefined
    fetched,        \* rows each upstream call returned, or its failure
    resp            \* the response, not sent until the handler returns

genVars == <<genIn, genOut>>
calVars == <<heap, calendarData, pendingUpdates, exchange, loading, error, calls,
             fetchCount, genCount, warm, lastWrite, cleared>>
aggVars == <<req, pc, upstream, inflight, sinceDispatch, dispatchGaps, roster,
             dailyDataMap, basicIndicatorsMap, fetched, resp>>
unitVars == <<callIn, callOut, statsIn, statsOut>>
vars == <<timeZone, unitVars, genVars, calVars, aggVars>>

(***************************************************************************)
(* Strings                                                                 *)
(***************************************************************************)
DigitChars == <<"0", "1", "2", "3", "4", "5", "6", "7", "8", "9">>

RECURSIVE ToStr(_)
\* String(n) of a non-negative integer: its decimal digits.
ToStr(n) ==
    IF n < 10 THEN <<DigitChars[n + 1]>>
    ELSE ToStr(n \div 10) \o <<DigitChars[(n % 10) + 1]>>

\* s.padStart(2, '0')
PadStart2(s) == IF Len(s) < 2 THEN <<"0">> \o s ELSE s

(***************************************************************************)
(* JavaScript Date, local time zone, as the calendar code uses it          *)
(***************************************************************************)
IsLeapYear(y) == (y % 4 = 0 /\ y % 100 # 0) \/ y % 400 = 0

\* Days of the proleptic Gregorian calendar before 1 January of year y.
DaysBeforeYear(y) ==
    365 * (y - 1) + ((y - 1) \div 4) - ((y - 1) \div 100) + ((y - 1) \div 400)

CumDays == <<0, 31, 59, 90, 120, 151, 181, 212, 243, 273, 304, 334>>

\* Days of year y before the first of month m (1..12).
DaysBeforeMonth(y, m) == CumDays[m] + (IF m > 2 /\ IsLeapYear(y) THEN 1 ELSE 0)

\* Day number of a civil date; 0001-01-01 is day 1, a Monday.
DayNum(y, m, d) == DaysBeforeYear(y) + DaysBeforeMonth(y, m) + d

\* The civil date of a day number, as a Date object's local fields.
CivilOf(n) ==
    LET y == CHOOSE yy \in (n \div 366)..((n \div 365) + 1) :
                 DaysBeforeYear(yy) < n /\ n <= DaysBeforeYear(yy + 1)
        r == n - DaysBeforeYear(y)
        m == CHOOSE mm \in 1..12 :
                 /\ DaysBeforeMonth(y, mm) < r
                 /\ (mm = 12 \/ r <= DaysBeforeMonth(y, mm + 1))
    IN  [year |-> y, month |-> m, day |-> r - DaysBeforeMonth(y, m), num |-> n]

\* new Date(year, monthIndex, day) in local time: month overflow carries into
\* the year, and day 0 (or any day outside the month) is normalised by day count.
JSDate(year, monthIndex, day) ==
    LET yy == year + (monthIndex \div 12)
        mm == (monthIndex % 12) + 1
    IN  CivilOf(DayNum(yy, mm, 1) + day - 1)

\* date.getDay(): 0 is Sunday, 6 is Saturday.
GetDay(date) == date.num % 7

\* date.toISOString().split('T')[0]: the UTC calendar day of local midnight.
\* tz is the zone's offset east of UTC in hours: local midnight of a zone east
\* of UTC lies in the previous UTC day.
ISODateString(date, tz) ==
    LET u == CivilOf(IF tz > 0 THEN date.num - 1 ELSE date.num)
    IN  ToStr(u.year) \o <<"-">> \o PadStart2(ToStr(u.month))
            \o <<"-">> \o PadStart2(ToStr(u.day))

\* formatDateToString: YYYYMMDD from the local getters.
formatDateToString(date) ==
    ToStr(date.year) \o PadStart2(ToStr(date.month)) \o PadStart2(ToStr(date.day))

\* getMonthKey: `${year}-${String(month).padStart(2, '0')}-${exchange}`
getMonthKey(year, month, exch) ==
    ToStr(year) \o <<"-">> \o PadStart2(ToStr(month)) \o <<"-">> \o exch

SSE == <<"S", "S", "E">>
SZSE == <<"S", "Z", "S", "E">>
Exchanges == {SSE, SZSE}

(***************************************************************************)
(* transformToCalendarDates                                                *)
(***************************************************************************)
Undefined == [undefined |-> TRUE]
Null == [null |-> TRUE]

\* tradeMap.get(key) after apiData.forEach(item => tradeMap.set(item.cal_date,
\* item)): the last item of the list with that cal_date.
TradeMapGet(apiData, key) ==
    LET hits == {i \in 1..Len(apiData) : apiData[i].cal_date = key}
    IN  IF hits = {} THEN Undefined
        ELSE apiData[CHOOSE i \in hits : \A j \in hits : j <= i]

daysInMonth_PrevMonth(year, month) == JSDate(year, month - 1, 0).day

\* new Date(year, month, 0).getDate()
daysInMonth(year, month) == JSDate(year, month, 0).day

CalendarDateOf_UnmarkedWeekdayTrades(apiData, year, month, day, exch, tz) ==
    LET date == JSDate(year, month - 1, day)
        dateString == formatDateToString(date)
        tradeInfo == TradeMapGet(apiData, dateString)
        dayOfWeek == GetDay(date)
        isWeekend == dayOfWeek = 0 \/ dayOfWeek = 6
    IN  [date |-> date,
         dateString |-> ISODateString(date, tz),
         isTrading |-> IF tradeInfo # Undefined THEN tradeInfo.is_open = 1 ELSE ~isWeekend,
         isWeekend |-> isWeekend,
         isHoliday |-> IF tradeInfo # Undefined
                       THEN tradeInfo.is_open = 0 /\ ~isWeekend ELSE FALSE,
         exchange |-> exch,
         tradeDate |-> dateString]

CalendarDateOf_NonZeroTrades(apiData, year, month, day, exch, tz) ==
    LET date == JSDate(year, month - 1, day)
        dateString == formatDateToString(date)
        tradeInfo == TradeMapGet(apiData, dateString)
        dayOfWeek == GetDay(date)
        isWeekend == dayOfWeek = 0 \/ dayOfWeek = 6
    IN  [date |-> date,
         dateString |-> ISODateString(date, tz),
         isTrading |-> IF tradeInfo # Undefined THEN tradeInfo.is_open # 0 ELSE FALSE,
         isWeekend |-> isWeekend,
         isHoliday |-> IF tradeInfo # Undefined
                       THEN tradeInfo.is_open = 0 /\ ~isWeekend ELSE FALSE,
         exchange |-> exch,
         tradeDate |-> dateString]

\* One CalendarDate of the loop body.
CalendarDateOf(apiData, year, month, day, exch, tz) ==
    LET date == JSDate(year, month - 1, day)
        dateString == formatDateToString(date)
        tradeInfo == TradeMapGet(apiData, dateString)
        dayOfWeek == GetDay(date)
        isWeekend == dayOfWeek = 0 \/ dayOfWeek = 6
    IN  [date |-> date,
         dateString |-> ISODateString(date, tz),
         isTrading |-> IF tradeInfo # Undefined THEN tradeInfo.is_open = 1 ELSE FALSE,
         isWeekend |-> isWeekend,
         isHoliday |-> IF tradeInfo # Undefined
                       THEN tradeInfo.is_open = 0 /\ ~isWeekend ELSE FALSE,
         exchange |-> exch,
         tradeDate |-> dateString]

\* transformToCalendarDates(apiData, year, month); exch is the hook's exchange
\* state captured by the closure, tz the time zone of the running process.
transformToCalendarDates(apiData, year, month, exch, tz) ==
    [day \in 1..daysInMonth(year, month) |->
        CalendarDateOf(apiData, year, month, day, exch, tz)]

(***************************************************************************)
(* Inputs of the generator                                                 *)
(***************************************************************************)
MaxMarkers == 1
GenYears == {1900, 2000, 2023, 2024}
Months == 1..12
TimeZones == {-5, 0, 8}
MarkerDays == {1, 15}
OpenValues == {0, 1, 2}

\* The marker lists for a month: TradeCalendarItem rows of the endpoint.
MarkerItems(year, month) ==
    {[exchange |-> SSE,
      cal_date |-> ToStr(year) \o PadStart2(ToStr(month)) \o PadStart2(ToStr(d)),
      is_open |-> o,
      pretrade_date |-> <<>>] : d \in MarkerDays, o \in OpenValues}

SeqsUpTo(S, n) == UNION {[1..k -> S] : k \in 0..n}

MarkerLists(year, month) == SeqsUpTo(MarkerItems(year, month), MaxMarkers)

(***************************************************************************)
(* Idle states of the components a specification does not exercise         *)
(***************************************************************************)
EmptyMap == <<>>

\* TushareClient.rateLimit: TUSHARE_RATE_LIMIT_DELAY, 200 ms when unset.
RateLimitDelay == 200

\* useState initial values of the hook, nothing invoked yet.
CalIdle ==
    /\ heap = <<>>
    /\ calendarData = EmptyMap
    /\ pendingUpdates = <<>>
    /\ exchange = [shown |-> SSE, next |-> SSE]
    /\ loading = [shown |-> FALSE, next |-> FALSE]
    /\ error = [shown |-> "null", next |-> "null"]
    /\ calls = <<>>
    /\ fetchCount = 0
    /\ genCount = 0
    /\ warm = EmptyMap
    /\ lastWrite = EmptyMap
    /\ cleared = [called |-> FALSE, held |-> {}, calls |-> 0]

AggIdle ==
    /\ req = [endpoint |-> "none"]
    /\ pc = "idle"
    /\ upstream = <<>>
    /\ inflight = EmptyMap
    /\ sinceDispatch = RateLimitDelay
    /\ dispatchGaps = <<>>
    /\ roster = <<>>
    /\ dailyDataMap = Undefined
    /\ basicIndicatorsMap = Undefined
    /\ fetched = EmptyMap
    /\ resp = [sent |-> FALSE]

UnitIdle ==
    /\ callIn = [kind |-> "none"]
    /\ callOut = [done |-> FALSE]
    /\ statsIn = [stocks |-> <<>>]
    /\ statsOut = [done |-> FALSE]

GenIdle ==
    /\ genIn = [year |-> 0, month |-> 0, apiData |-> <<>>, exchange |-> SSE]
    /\ genOut = [done |-> FALSE, dates |-> <<>>]

GenInit ==
    /\ timeZone \in TimeZones
    /\ \E y \in GenYears, m \in Months, e \in Exchanges :
         \E data \in MarkerLists(y, m) :
            genIn = [year |-> y, month |-> m, apiData |-> data, exchange |-> e]
    /\ genOut = [done |-> FALSE, dates |-> <<>>]
    /\ UnitIdle
    /\ CalIdle
    /\ AggIdle

Generate ==
    /\ ~genOut.done
    /\ genOut' = [done |-> TRUE,
                  dates |-> transformToCalendarDates(genIn.apiData, genIn.year,
                                genIn.month, genIn.exchange, timeZone)]
    /\ UNCHANGED <<genIn, timeZone, unitVars, calVars, aggVars>>

(***************************************************************************)
(* Specification of the generator: every input, one generation             *)
(***************************************************************************)
GenNext == Generate

SpecGen == GenInit /\ [][GenNext]_vars

\* The length of a month by the calendar's rule, stated independently of the
\* day arithmetic above.
MonthLength(year, month) ==
    IF month \in {4, 6, 9, 11} THEN 30
    ELSE IF month # 2 THEN 31
    ELSE IF (year % 4 = 0 /\ year % 100 # 0) \/ year % 400 = 0 THEN 29
    ELSE 28

\* C10: for every year, month 1..12 and marker list the generator returns
\* exactly the number of days of that month (28, 29, 30 or 31), one entry per
\* calendar day of that month and year (no padding day of a neighbouring
\* month), with pairwise distinct dates in strictly ascending order.
C10_DayCount ==
    genOut.done =>
        LET dates == genOut.dates
        IN  /\ Len(dates) = MonthLength(genIn.year, genIn.month)
            /\ Len(dates) \in {28, 29, 30, 31}
            /\ \A i \in 1..Len(dates) :
                   /\ dates[i].date.year = genIn.year
                   /\ dates[i].date.month = genIn.month
                   /\ dates[i].date.day = i
            /\ \A i, j \in 1..Len(dates) :
                   /\ i < j => dates[i].date.num < dates[j].date.num
                   /\ i # j => dates[i].tradeDate # dates[j].tradeDate

\* C10 witness: February of a leap year generated from a non-empty marker list.
C10_Witness ==
    /\ genOut.done
    /\ genIn.year = 2024 /\ genIn.month = 2
    /\ Len(genIn.apiData) > 0
    /\ Len(genOut.dates) = 29

\* Day of the week by Zeller's congruence: 0 Saturday, 1 Sunday, ..., 6 Friday.
Zeller(year, month, day) ==
    LET m == IF month < 3 THEN month + 12 ELSE month
        y == IF month < 3 THEN year - 1 ELSE year
        k == y % 100
        j == y \div 100
    IN  (day + ((13 * (m + 1)) \div 5) + k + (k \div 4) + (j \div 4) + 5 * j) % 7

\* The markers of the list for a day of the generated month.
MarkersFor(day) ==
    {j \in 1..Len(genIn.apiData) :
        genIn.apiData[j].cal_date =
            ToStr(genIn.year) \o PadStart2(ToStr(genIn.month)) \o PadStart2(ToStr(day))}

\* C11: every generated day without a marker is neither trading nor holiday,
\* every day whose marker is open is trading and not a holiday, and isWeekend
\* is true exactly on Saturdays and Sundays, whatever the markers.
C11_FlagsFollowMarkers ==
    genOut.done =>
        \A i \in 1..Len(genOut.dates) :
            LET d == genOut.dates[i]
            IN  /\ MarkersFor(i) = {} => ~d.isTrading /\ ~d.isHoliday
                /\ (/\ MarkersFor(i) # {}
                    /\ \A j \in MarkersFor(i) : genIn.apiData[j].is_open = 1)
                       => d.isTrading /\ ~d.isHoliday
                /\ d.isWeekend <=> Zeller(genIn.year, genIn.month, i) \in {0, 1}

\* June 2024 generated from an open marker on Saturday the 1st.
C11_Witness ==
    /\ genOut.done
    /\ genIn.year = 2024 /\ genIn.month = 6
    /\ Len(genIn.apiData) = 1
    /\ genIn.apiData[1].is_open = 1
    /\ MarkersFor(1) # {}
    /\ genOut.dates[1].isWeekend
    /\ genOut.dates[1].isTrading
    /\ ~genOut.dates[3].isWeekend

\* The marker tradeMap holds for a day that has one: the last of the list.
MarkerOf(day) ==
    genIn.apiData[CHOOSE j \in MarkersFor(day) : \A k \in MarkersFor(day) : k <= j]

ExactlyOne(d) == d.isTrading <=> ~(d.isHoliday \/ d.isWeekend)

\* C12 as stated: on every generated day that has a marker, exactly one of
\* isTrading and (isHoliday or isWeekend) is true.
C12_ExactlyOne ==
    genOut.done =>
        \A i \in 1..Len(genOut.dates) :
            MarkersFor(i) # {} => ExactlyOne(genOut.dates[i])

\* C12 amended: on a generated day that has a marker, exactly one of
\* isTrading and (isHoliday or isWeekend) is true, except that an open marker
\* on a Saturday or Sunday gives both and a marker value other than 0 and 1
\* on a weekday gives neither.
C12_ExactlyOneUnlessOpenWeekendOrOddValue ==
    genOut.done =>
        \A i \in 1..Len(genOut.dates) :
            MarkersFor(i) # {} =>
                LET d == genOut.dates[i]
                    weekend == Zeller(genIn.year, genIn.month, i) \in {0, 1}
                    open == MarkerOf(i).is_open
                IN  /\ (open = 1 /\ weekend) => d.isTrading /\ d.isWeekend
                    /\ (open \notin {0, 1} /\ ~weekend)
                           => ~d.isTrading /\ ~d.isHoliday /\ ~d.isWeekend
                    /\ (~(open = 1 /\ weekend) /\ ~(open \notin {0, 1} /\ ~weekend))
                           => ExactlyOne(d)

\* March 2024 generated from a closed marker on Friday the 1st: a holiday.
C12_Witness ==
    /\ genOut.done
    /\ genIn.year = 2024 /\ genIn.month = 3
    /\ MarkersFor(1) # {}
    /\ MarkerOf(1).is_open = 0
    /\ genOut.dates[1].isHoliday
    /\ ~genOut.dates[1].isTrading
    /\ ~genOut.dates[1].isWeekend

(***************************************************************************)
(* The month cache of the useTradeCalendar hook                            *)
(*                                                                         *)
(* React state is read from the snapshot of the last render; a setState    *)
(* call queues its update, and Render applies the queued updates in order. *)
(* Callers invoke the callbacks the hook returned from the last render.    *)
(***************************************************************************)
MaxCalls == 2
MaxPending == 2
CalYears == {2024}
CalMonths == {3}
CalTimeZones == {8}

\* The bodies result.data of a successful trade-calendar response.
CalApiData(year, month) ==
    {<<>>,
     <<[exchange |-> SSE,
        cal_date |-> ToStr(year) \o PadStart2(ToStr(month)) \o PadStart2(ToStr(1)),
        is_open |-> 1,
        pretrade_date |-> <<>>]>>}

\* The ways the marker fetch fails: fetch rejects, response.ok is false,
\* result.success is false.
FetchFailures == {"network", "http", "api"}

ErrorMessage(kind) ==
    CASE kind = "network" -> "Failed to fetch"
      [] kind = "http" -> "HTTP error! status"
      [] kind = "api" -> "API failed"

\* calendarData.has(key) / calendarData.get(key) on a Map
MapHas(map, key) == key \in DOMAIN map
MapGet(map, key) == IF key \in DOMAIN map THEN map[key] ELSE 0

\* new Map(prev).set(key, ref)
MapSet(map, key, ref) ==
    [k \in DOMAIN map \cup {key} |-> IF k = key THEN ref ELSE map[k]]

\* One queued setCalendarData update applied to the previous state: the
\* updater prev => new Map(prev).set(monthKey, monthData), or the value
\* new Map() of clearCache.
ApplyUpdate_KeepExisting(prev, u) ==
    IF u.op = "set"
    THEN IF MapHas(prev, u.key) THEN prev ELSE MapSet(prev, u.key, u.ref)
    ELSE u.map

ApplyUpdate(prev, u) ==
    IF u.op = "set" THEN MapSet(prev, u.key, u.ref) ELSE u.map

RECURSIVE ApplyUpdates(_, _)
ApplyUpdates(prev, queue) ==
    IF queue = <<>> THEN prev
    ELSE ApplyUpdates(ApplyUpdate(prev, Head(queue)), Tail(queue))

\* getCachedMonth(year, month, targetExchange): 0 stands for undefined.
getCachedMonth(year, month, targetExchange) ==
    MapGet(calendarData, getMonthKey(year, month, targetExchange))

TradingDays_NotClosed(dates) ==
    Cardinality({i \in 1..Len(dates) : ~dates[i].isHoliday /\ ~dates[i].isWeekend})

\* const tradingDays = dates.filter(d => d.isTrading).length
TradingDays(dates) == Cardinality({i \in 1..Len(dates) : dates[i].isTrading})

\* monthData.dates: transformToCalendarDates(result.data, year, month), run in
\* the closure of the invocation (its exchange) and the process's time zone.
DatesOf(monthData) ==
    transformToCalendarDates(monthData.data, monthData.year, monthData.month,
                             monthData.exch, timeZone)

\* monthData.tradingDays
TradingDaysOf(monthData) == TradingDays(DatesOf(monthData))

\* Calls of a key that have issued their fetch and not settled.
InFlight(key) ==
    {i \in 1..Len(calls) : calls[i].key = key /\ calls[i].status = "fetching"}

WithoutKey(map, key) == [k \in DOMAIN map \ {key} |-> map[k]]

CalInit ==
    /\ timeZone \in CalTimeZones
    /\ UnitIdle
    /\ GenIdle
    /\ AggIdle
    /\ CalIdle

CacheHit_IgnoreForce(key, forceRefresh) == MapHas(calendarData, key)

\* The cache test of fetchMonthCalendar: return the cached entry?
CacheHit(key, forceRefresh) == ~forceRefresh /\ MapHas(calendarData, key)

\* fetchMonthCalendar up to its first await: the cache test, and on a miss or
\* a forced refresh setLoading(true), setError(null) and the fetch.
StartCall(year, month, targetExchange, forceRefresh) ==
    LET monthKey == getMonthKey(year, month, targetExchange)
        hit == CacheHit(monthKey, forceRefresh)
        call == [key |-> monthKey, year |-> year, month |-> month,
                 force |-> forceRefresh,
                 exch |-> exchange.shown,
                 status |-> IF hit THEN "returned" ELSE "fetching",
                 result |-> IF hit THEN MapGet(calendarData, monthKey) ELSE 0,
                 fetched |-> ~hit,
                 generated |-> FALSE,
                 cachedAtStart |-> MapHas(calendarData, monthKey),
                 emptyAtStart |-> calendarData = EmptyMap,
                 inFlightAtStart |-> {i \in 1..Len(calls) : calls[i].status = "fetching"},
                 warmAtStart |-> IF InFlight(monthKey) = {}
                                 THEN MapGet(warm, monthKey) ELSE 0]
    IN  /\ Len(calls) < MaxCalls
        /\ calls' = Append(calls, call)
        /\ IF hit
           THEN UNCHANGED <<loading, error, fetchCount>>
           ELSE /\ loading' = [loading EXCEPT !.next = TRUE]
                /\ error' = [error EXCEPT !.next = "null"]
                /\ fetchCount' = fetchCount + 1
        /\ warm' = IF forceRefresh THEN WithoutKey(warm, monthKey)
                   ELSE IF hit THEN MapSet(warm, monthKey, call.result)
                   ELSE warm
        /\ UNCHANGED <<timeZone, unitVars, genVars, aggVars, heap, calendarData, pendingUpdates, exchange,
                       genCount, lastWrite, cleared>>

FetchSucceeds_StaleMap(id, data) ==
    LET c == calls[id]
        ref == Len(heap) + 1
        monthData == [year |-> c.year, month |-> c.month,
                      data |-> data, exch |-> c.exch, lastUpdate |-> ref]
    IN  /\ c.status = "fetching"
        /\ heap' = Append(heap, monthData)
        /\ genCount' = genCount + 1
        /\ pendingUpdates' =
              Append(pendingUpdates,
                     [op |-> "replace", map |-> MapSet(calendarData, c.key, ref)])
        /\ loading' = [loading EXCEPT !.next = FALSE]
        /\ calls' = [calls EXCEPT ![id].status = "returned", ![id].result = ref,
                                  ![id].generated = TRUE]
        /\ warm' = IF c.force THEN WithoutKey(warm, c.key)
                   ELSE MapSet(warm, c.key, ref)
        /\ lastWrite' = MapSet(lastWrite, c.key, ref)
        /\ UNCHANGED <<timeZone, unitVars, genVars, aggVars, calendarData, exchange, error, fetchCount,
                       cleared>>

FetchSucceeds_InPlace(id, data) ==
    LET c == calls[id]
        old == MapGet(calendarData, c.key)
        ref == IF old # 0 THEN old ELSE Len(heap) + 1
        monthData == [year |-> c.year, month |-> c.month,
                      data |-> data, exch |-> c.exch, lastUpdate |-> Len(heap) + 1]
    IN  /\ c.status = "fetching"
        /\ heap' = IF old # 0 THEN [heap EXCEPT ![old] = monthData]
                   ELSE Append(heap, monthData)
        /\ genCount' = genCount + 1
        /\ pendingUpdates' =
              Append(pendingUpdates, [op |-> "set", key |-> c.key, ref |-> ref])
        /\ loading' = [loading EXCEPT !.next = FALSE]
        /\ calls' = [calls EXCEPT ![id].status = "returned", ![id].result = ref,
                                  ![id].generated = TRUE]
        /\ warm' = IF c.force THEN WithoutKey(warm, c.key)
                   ELSE MapSet(warm, c.key, ref)
        /\ lastWrite' = MapSet(lastWrite, c.key, ref)
        /\ UNCHANGED <<timeZone, unitVars, genVars, aggVars, calendarData, exchange, error, fetchCount,
                       cleared>>

\* The rest of fetchMonthCalendar after a successful fetch: transform, build
\* monthData, queue the cache update, return monthData; finally
\* setLoading(false).
FetchSucceeds(id, data) ==
    LET c == calls[id]
        ref == Len(heap) + 1
        monthData == [year |-> c.year, month |-> c.month,
                      data |-> data, exch |-> c.exch, lastUpdate |-> ref]
    IN  /\ c.status = "fetching"
        /\ heap' = Append(heap, monthData)
        /\ genCount' = genCount + 1
        /\ pendingUpdates' =
              Append(pendingUpdates, [op |-> "set", key |-> c.key, ref |-> ref])
        /\ loading' = [loading EXCEPT !.next = FALSE]
        /\ calls' = [calls EXCEPT ![id].status = "returned", ![id].result = ref,
                                  ![id].generated = TRUE]
        /\ warm' = IF c.force THEN WithoutKey(warm, c.key)
                   ELSE MapSet(warm, c.key, ref)
        /\ lastWrite' = MapSet(lastWrite, c.key, ref)
        /\ UNCHANGED <<timeZone, unitVars, genVars, aggVars, calendarData, exchange, error, fetchCount,
                       cleared>>

FetchFails_Evict(id, kind) ==
    /\ calls[id].status = "fetching"
    /\ error' = [error EXCEPT !.next = ErrorMessage(kind)]
    /\ loading' = [loading EXCEPT !.next = FALSE]
    /\ calls' = [calls EXCEPT ![id].status = "threw"]
    /\ pendingUpdates' =
          Append(pendingUpdates,
                 [op |-> "replace",
                  map |-> WithoutKey(calendarData, calls[id].key)])
    /\ UNCHANGED <<timeZone, unitVars, genVars, aggVars, heap, calendarData, exchange,
                   fetchCount, genCount, warm, lastWrite, cleared>>

\* The catch and finally blocks of fetchMonthCalendar: setError(errorMsg),
\* throw err, setLoading(false).
FetchFails(id, kind) ==
    /\ calls[id].status = "fetching"
    /\ error' = [error EXCEPT !.next = ErrorMessage(kind)]
    /\ loading' = [loading EXCEPT !.next = FALSE]
    /\ calls' = [calls EXCEPT ![id].status = "threw"]
    /\ UNCHANGED <<timeZone, unitVars, genVars, aggVars, heap, calendarData, pendingUpdates, exchange,
                   fetchCount, genCount, warm, lastWrite, cleared>>

ClearCache_KeepOtherExchange ==
    /\ Len(pendingUpdates) < MaxPending
    /\ pendingUpdates' =
          Append(pendingUpdates,
                 [op |-> "replace",
                  map |-> [k \in {x \in DOMAIN calendarData :
                                    x # getMonthKey(2024, 3, exchange.shown)}
                           |-> calendarData[k]]])
    /\ warm' = EmptyMap
    /\ lastWrite' = EmptyMap
    /\ cleared' = [called |-> TRUE,
                   held |-> DOMAIN ApplyUpdates(calendarData, pendingUpdates),
                   calls |-> Len(calls)]
    /\ UNCHANGED <<timeZone, unitVars, genVars, aggVars, heap, calendarData, exchange,
                   loading, error, calls, fetchCount, genCount>>

\* clearCache: setCalendarData(new Map())
ClearCache ==
    /\ Len(pendingUpdates) < MaxPending
    /\ pendingUpdates' = Append(pendingUpdates, [op |-> "replace", map |-> EmptyMap])
    /\ warm' = EmptyMap
    /\ lastWrite' = EmptyMap
    /\ cleared' = [called |-> TRUE,
                   held |-> DOMAIN ApplyUpdates(calendarData, pendingUpdates),
                   calls |-> Len(calls)]
    /\ UNCHANGED <<timeZone, unitVars, genVars, aggVars, heap, calendarData, exchange, loading, error, calls,
                   fetchCount, genCount>>

\* switchExchange: setExchange(newExchange)
SwitchExchange(newExchange) ==
    /\ exchange.next # newExchange
    /\ exchange' = [exchange EXCEPT !.next = newExchange]
    /\ UNCHANGED <<timeZone, unitVars, genVars, aggVars, heap, calendarData, pendingUpdates, loading, error,
                   calls, fetchCount, genCount, warm, lastWrite, cleared>>

\* A render of the component: the queued updates of every state are applied.
Render ==
    /\ \/ pendingUpdates # <<>>
       \/ exchange.next # exchange.shown
       \/ loading.next # loading.shown
       \/ error.next # error.shown
    /\ calendarData' = ApplyUpdates(calendarData, pendingUpdates)
    /\ pendingUpdates' = <<>>
    /\ exchange' = [exchange EXCEPT !.shown = exchange.next]
    /\ loading' = [loading EXCEPT !.shown = loading.next]
    /\ error' = [error EXCEPT !.shown = error.next]
    /\ UNCHANGED <<timeZone, unitVars, genVars, aggVars, heap, calls, fetchCount, genCount, warm, lastWrite,
                   cleared>>

CalNext ==
    \/ \E y \in CalYears, m \in CalMonths, e \in Exchanges, f \in BOOLEAN :
          StartCall(y, m, e, f)
    \/ \E id \in 1..Len(calls) :
          \E data \in CalApiData(calls[id].year, calls[id].month) :
             FetchSucceeds(id, data)
    \/ \E id \in 1..Len(calls), kind \in FetchFailures : FetchFails(id, kind)
    \/ ClearCache
    \/ \E e \in Exchanges : SwitchExchange(e)
    \/ Render

SpecCal == CalInit /\ [][CalNext]_vars

(***************************************************************************)
(* Claims about the month cache                                            *)
(***************************************************************************)
CallIds == 1..Len(calls)

\* C6: a non-forced call of a key, issued after an earlier non-forced call of
\* the same key has completed, with no forced refresh of the key, no clear
\* and no other fetch of the key in between, returns the identical entry
\* object and performs no marker fetch and no generation.
C6_SecondCallServedFromCache ==
    \A i \in CallIds :
        (~calls[i].force /\ calls[i].warmAtStart # 0) =>
            /\ ~calls[i].fetched
            /\ calls[i].result = calls[i].warmAtStart

\* C7: a forced call always issues a marker fetch and, on success, a new
\* generation, also when the key was cached when it was called; every fetch
\* and generation is counted once; and once its cache update is rendered, and
\* while no later write of the key or clear has been made, the cache entry of
\* the key is the newly generated entry.
C7_ForcedRefreshRefetches ==
    /\ \A i \in CallIds : calls[i].force => calls[i].fetched
    /\ fetchCount = Cardinality({i \in CallIds : calls[i].fetched})
    /\ genCount = Cardinality({i \in CallIds : calls[i].generated})
    /\ \A i \in CallIds :
          (calls[i].force /\ calls[i].status = "returned") =>
             /\ calls[i].generated
             /\ \A j \in CallIds : j < i => calls[j].result # calls[i].result
             /\ (/\ pendingUpdates = <<>>
                 /\ MapGet(lastWrite, calls[i].key) = calls[i].result)
                => MapGet(calendarData, calls[i].key) = calls[i].result

\* C7 witness: a forced refresh of a key that was cached when it was called has
\* returned, and the rendered cache holds its new entry in place of the old.
C7_Witness ==
    \E i \in CallIds :
        /\ calls[i].force /\ calls[i].cachedAtStart
        /\ calls[i].status = "returned"
        /\ pendingUpdates = <<>>
        /\ MapGet(calendarData, calls[i].key) = calls[i].result
        /\ \E j \in CallIds : j < i /\ calls[j].key = calls[i].key
                                /\ calls[j].result \notin {0, calls[i].result}

\* C8: once a clearCache has been rendered, the cache holds no entry but those
\* written after the clear was called, whatever it held before: with no such
\* write getCachedMonth returns nothing for every key; and a non-forced call
\* made on the empty cache performs a marker fetch, for every key.
C8_ClearRemovesEverything ==
    /\ (cleared.called /\ \A n \in 1..Len(pendingUpdates) :
                              pendingUpdates[n].op # "replace")
        => /\ \A k \in DOMAIN calendarData : MapHas(lastWrite, k)
           /\ lastWrite = EmptyMap =>
                 \A y \in CalYears, m \in CalMonths, e \in Exchanges :
                     getCachedMonth(y, m, e) = 0
    /\ \A i \in CallIds :
          (~calls[i].force /\ calls[i].emptyAtStart) => calls[i].fetched

\* C8 witness: the cache held an entry when clearCache was called, the clear
\* is rendered, and a later non-forced call of that key fetched again.
C8_Witness ==
    /\ cleared.called /\ cleared.held # {}
    /\ pendingUpdates = <<>>
    /\ calendarData = EmptyMap
    /\ \E i \in CallIds :
          /\ calls[i].key \in cleared.held
          /\ ~calls[i].force /\ calls[i].emptyAtStart /\ calls[i].fetched
          /\ \E j \in CallIds : j < i /\ calls[j].key = calls[i].key
                                  /\ calls[j].status = "returned"

\* C9: when the marker fetch of a call fails, forced or not, the error is
\* thrown to the caller and recorded, and neither the failure nor the start of
\* the call changes the cache: the rendered map, the queued cache updates and
\* every entry object are as before.
C9_FailureLeavesCache ==
    [][/\ \A i \in CallIds :
             (calls[i].status = "fetching" /\ calls'[i].status # "fetching"
                 /\ calls'[i].result = 0)
             => /\ calls'[i].status = "threw"
                /\ error'.next # "null"
                /\ calendarData' = calendarData
                /\ pendingUpdates' = pendingUpdates
                /\ heap' = heap
       /\ Len(calls') > Len(calls) =>
             /\ calendarData' = calendarData
             /\ pendingUpdates' = pendingUpdates
             /\ heap' = heap]_vars

\* C9 witness: a forced refresh of a cached key has failed and the rendered
\* cache still holds the entry the key had.
C9_Witness ==
    \E i \in CallIds :
        /\ calls[i].force /\ calls[i].cachedAtStart
        /\ calls[i].status = "threw"
        /\ pendingUpdates = <<>>
        /\ MapHas(calendarData, calls[i].key)
        /\ error.shown # "null"

(***************************************************************************)
(* Request validation and error responses (ApiResponseHandler,             *)
(* RequestValidator), shared by the endpoints                              *)
(***************************************************************************)
IsDigit(c) == \E n \in 1..10 : DigitChars[n] = c

\* String.prototype.includes
Includes(str, sub) ==
    \E i \in 1..(Len(str) - Len(sub) + 1) : SubSeq(str, i, i + Len(sub) - 1) = sub

\* /^\d{8}$/.test(date)
IsEightDigits(date) == Len(date) = 8 /\ \A i \in 1..Len(date) : IsDigit(date[i])

SH == <<"S", "H">>
SZ == <<"S", "Z">>

\* /^\d{6}\.(SH|SZ)$/.test(code)
IsStockCode(code) ==
    /\ Len(code) = 9
    /\ \A i \in 1..6 : IsDigit(code[i])
    /\ code[7] = "."
    /\ SubSeq(code, 8, 9) \in {SH, SZ}

NoError == [name |-> "none", message |-> <<>>]

\* RequestValidator.dateFormat: the ValidationError it throws, or NoError.
dateFormat(date, fieldName) ==
    IF date # <<>> /\ ~IsEightDigits(date)
    THEN [name |-> "ValidationError",
          message |-> <<"I", "n", "v", "a", "l", "i", "d", " ">> \o fieldName
                      \o <<" ", "f", "o", "r", "m", "a", "t", ".", " ", "E", "x", "p", "e", "c", "t", "e", "d", " ", "Y", "Y", "Y", "Y", "M", "M", "D", "D", ",", " ", "g", "o", "t", ":", " ">> \o date]
    ELSE NoError

\* RequestValidator.stockCode: the ValidationError it throws, or NoError.
stockCode(code, fieldName) ==
    IF code # <<>> /\ ~IsStockCode(code)
    THEN [name |-> "ValidationError",
          message |-> <<"I", "n", "v", "a", "l", "i", "d", " ">> \o fieldName
                      \o <<" ", "f", "o", "r", "m", "a", "t", ".", " ", "E", "x", "p", "e", "c", "t", "e", "d", " ", "X", "X", "X", "X", "X", "X", ".", "S", "H", " ", "o", "r", " ", "X", "X", "X", "X", "X", "X", ".", "S", "Z", ",", " ", "g", "o", "t", ":", " ">> \o code]
    ELSE NoError

MsgTushareApiError == <<"T", "u", "s", "h", "a", "r", "e", " ", "A", "P", "I", " ", "e", "r", "r", "o", "r">>
MsgFetch == <<"f", "e", "t", "c", "h">>
MsgTushareToken == <<"T", "U", "S", "H", "A", "R", "E", "_", "T", "O", "K", "E", "N">>
MsgTokenRequired == <<"T", "U", "S", "H", "A", "R", "E", "_", "T", "O", "K", "E", "N", " ", "e", "n", "v", "i", "r", "o", "n", "m", "e", "n", "t", " ", "v", "a", "r", "i", "a", "b", "l", "e", " ", "i", "s", " ", "r", "e", "q", "u", "i", "r", "e", "d">>
MsgMarket == <<"M", "a", "r", "k", "e", "t", " ", "m", "u", "s", "t", " ", "b", "e", " ", "S", "H", " ", "o", "r", " ", "S", "Z">>
\* The message of batch-fetch line 61, which holds no Latin letters, rendered
\* in English.
MsgNoStockBasic == <<"n", "o", " ", "s", "t", "o", "c", "k", " ", "b", "a", "s", "i", "c", " ", "d", "a", "t", "a">>
MsgHttpError == <<"H", "T", "T", "P", " ", "e", "r", "r", "o", "r", "!", " ", "s", "t", "a", "t", "u", "s", ":", " ", "5", "0", "0">>
MsgFetchFailed == <<"f", "e", "t", "c", "h", " ", "f", "a", "i", "l", "e", "d">>
MsgApiError == <<"T", "u", "s", "h", "a", "r", "e", " ", "A", "P", "I", " ", "e", "r", "r", "o", "r", ":", " ", "b", "a", "d", " ", "t", "o", "k", "e", "n", " ", "(", "c", "o", "d", "e", ":", " ", "2", "0", "0", "2", ")">>

\* ApiResponseHandler.handleError: the error response of an exception.
handleError(err) ==
    IF Includes(err.message, MsgTushareApiError)
    THEN [sent |-> TRUE, success |-> FALSE, code |-> "TUSHARE_API_ERROR", status |-> 400]
    ELSE IF Includes(err.message, MsgFetch)
    THEN [sent |-> TRUE, success |-> FALSE, code |-> "NETWORK_ERROR", status |-> 503]
    ELSE IF Includes(err.message, MsgTushareToken)
    THEN [sent |-> TRUE, success |-> FALSE, code |-> "CONFIGURATION_ERROR", status |-> 500]
    ELSE IF err.name = "ValidationError"
    THEN [sent |-> TRUE, success |-> FALSE, code |-> "VALIDATION_ERROR", status |-> 400]
    ELSE [sent |-> TRUE, success |-> FALSE, code |-> "INTERNAL_ERROR", status |-> 500]

\* ApiResponseHandler.success(data, {total, stats, ...})
success(data, stats) ==
    [sent |-> TRUE, success |-> TRUE, data |-> data, total |-> Len(data),
     stats |-> stats]

NaN == [nan |-> TRUE, value |-> 0]

Num(n) == [nan |-> FALSE, value |-> n]

RECURSIVE DigitsValue(_)
DigitsValue(str) ==
    IF str = <<>> THEN 0
    ELSE 10 * DigitsValue(SubSeq(str, 1, Len(str) - 1))
         + (CHOOSE n \in 0..9 : DigitChars[n + 1] = str[Len(str)])

\* parseInt(str): the leading decimal digits of the string, NaN when it has
\* none.
parseInt(str) ==
    LET k == CHOOSE n \in 0..Len(str) :
                 /\ \A i \in 1..n : IsDigit(str[i])
                 /\ (n = Len(str) \/ ~IsDigit(str[n + 1]))
    IN  IF k = 0 THEN NaN ELSE Num(DigitsValue(SubSeq(str, 1, k)))

\* The limit of the endpoints: if (limit) { limitNum = parseInt(limit); if
\* (!isNaN(limitNum) && limitNum > 0) rows = rows.slice(0, limitNum) }
ApplyLimit(rows, limit) ==
    IF limit = <<>> THEN rows
    ELSE LET limitNum == parseInt(limit)
         IN  IF ~limitNum.nan /\ limitNum.value > 0
             THEN SubSeq(rows, 1, IF limitNum.value < Len(rows)
                                  THEN limitNum.value ELSE Len(rows))
             ELSE rows

\* The error TushareClient.call throws for a failed exchange: fetch rejects,
\* response.ok is false, or the provider's code is not 0.
CallError(kind) ==
    [name |-> "Error",
     message |-> CASE kind = "network" -> MsgFetchFailed
                   [] kind = "http" -> MsgHttpError
                   [] kind = "api" -> MsgApiError]

CallFailures == {"network", "http", "api"}

(***************************************************************************)
(* Rows of the provider's datasets                                         *)
(***************************************************************************)
MaxRoster == 2
MaxOverlay == 2

CodeA == <<"6", "0", "0", "0", "0", "0", ".", "S", "H">>
CodeB == <<"0", "0", "0", "0", "0", "1", ".", "S", "Z">>
Codes == {CodeA, CodeB}
Date1 == <<"2", "0", "2", "4", "0", "1", "0", "2">>
Date2 == <<"2", "0", "2", "4", "0", "1", "0", "3">>
RowDates == {Date1, Date2}
IndustryBank == <<"B", "a", "n", "k">>
IndustryUnknown == <<"u", "n", "k", "n", "o", "w", "n">>
Closes == {10}

\* A stock_basic row: the instrument and its industry label (empty when the
\* provider sends none).
RosterRow(code) ==
    [ts_code |-> code, industry |-> IF code = CodeA THEN IndustryBank ELSE <<>>]

RECURSIVE RosterListsUpTo(_)
RosterListsUpTo(n) ==
    IF n = 0 THEN {<<>>}
    ELSE LET shorter == RosterListsUpTo(n - 1)
         IN  shorter \cup {Append(l, RosterRow(c)) : l \in {x \in shorter : Len(x) = n - 1},
                                                     c \in Codes}

\* A daily or daily_basic row: id is its position in the provider's answer and
\* stands for the values of its fields; close is the number the statistics
\* read.
RECURSIVE OverlayListsUpTo(_)
OverlayListsUpTo(n) ==
    IF n = 0 THEN {<<>>}
    ELSE LET shorter == OverlayListsUpTo(n - 1)
         IN  shorter \cup
             {Append(l, [ts_code |-> c, trade_date |-> d, id |-> n, close |-> p]) :
                  l \in {x \in shorter : Len(x) = n - 1},
                  c \in Codes, d \in RowDates, p \in Closes}

\* The value of one field of a row.
Cell(row, field) == [row |-> row.id, field |-> field, value |-> row.close]

(***************************************************************************)
(* RecordKeyer and RecordMerger of the batch endpoint (DataTransformer)    *)
(***************************************************************************)
\* key(instrumentId, tradeDate)
RecordKey(instrumentId, tradeDate) == instrumentId \o <<"_">> \o tradeDate

\* DataTransformer.createDataMap(rows): key -> row, a later row of the same
\* key replacing an earlier one.
createDataMap(rows) ==
    LET keys == {RecordKey(rows[i].ts_code, rows[i].trade_date) : i \in 1..Len(rows)}
        last(k) == CHOOSE i \in 1..Len(rows) :
                       /\ RecordKey(rows[i].ts_code, rows[i].trade_date) = k
                       /\ \A j \in 1..Len(rows) :
                              RecordKey(rows[j].ts_code, rows[j].trade_date) = k => j <= i
    IN  [entries |-> [k \in keys |-> rows[last(k)]]]

DataMapGet(dataMap, key) ==
    IF dataMap # Undefined /\ key \in DOMAIN dataMap.entries
    THEN dataMap.entries[key] ELSE Undefined

DataMapSize(dataMap) ==
    IF dataMap = Undefined THEN 0 ELSE Cardinality(DOMAIN dataMap.entries)

QuoteFields == {"currentPrice", "preClose", "change", "changePercent", "volume",
                "amount", "tradeDate"}
IndicatorFields == {"pe", "pb", "ps", "turnoverRate", "totalMarketValue",
                    "floatMarketValue"}

\* The overlay fields of one record: every field from the matched row, or
\* every field absent when no row matched.
OverlayGroup(row, fields) ==
    [f \in fields |-> IF row = Undefined THEN Undefined ELSE Cell(row, f)]

\* DataTransformer.mergeStockData: one roster row with the rows its key finds.
mergeStockData(basic, dailyMap, indicatorsMap, tradeDate) ==
    LET key == RecordKey(basic.ts_code, tradeDate)
    IN  [code |-> basic.ts_code,
         market |-> SubSeq(basic.ts_code, Len(basic.ts_code) - 1, Len(basic.ts_code)),
         industry |-> basic.industry,
         quote |-> OverlayGroup(DataMapGet(dailyMap, key), QuoteFields),
         indicators |-> OverlayGroup(DataMapGet(indicatorsMap, key), IndicatorFields)]

\* DataTransformer.batchMergeStockData: left join in roster order.
batchMergeStockData(basicList, dailyMap, indicatorsMap, tradeDate) ==
    [i \in 1..Len(basicList) |->
        mergeStockData(basicList[i], dailyMap, indicatorsMap, tradeDate)]

(***************************************************************************)
(* Merge of the market-data endpoint                                       *)
(***************************************************************************)
BasicFields == {"turnover_rate", "pe", "pb", "ps", "dv_ratio", "total_share",
                "float_share", "total_mv", "circ_mv"}

\* `${item.ts_code}_${item.trade_date}`
ItemKey(item) == item.ts_code \o <<"_">> \o item.trade_date

\* basicDataMap.get(key) after basicData.forEach(item =>
\* basicDataMap.set(key, item)): the last row of that key.
BasicDataMapGet(basicData, key) ==
    LET hits == {i \in 1..Len(basicData) : ItemKey(basicData[i]) = key}
    IN  IF hits = {} THEN Undefined
        ELSE basicData[CHOOSE i \in hits : \A j \in hits : j <= i]

CombinedRecord_DropField(daily, basic) ==
    [ts_code |-> daily.ts_code, trade_date |-> daily.trade_date, id |-> daily.id,
     close |-> daily.close,
     basic |-> [f \in BasicFields |->
                   IF basic = Undefined \/ f = "circ_mv" THEN Undefined
                   ELSE Cell(basic, f)]]
\* {...daily, ...(basic && {turnover_rate: basic.turnover_rate, ...})}: the
\* quote row with the indicator keys of the matched row; a key the record
\* does not have is Undefined.
CombinedRecord(daily, basic) ==
    [ts_code |-> daily.ts_code, trade_date |-> daily.trade_date, id |-> daily.id,
     close |-> daily.close,
     basic |-> [f \in BasicFields |->
                   IF basic = Undefined THEN Undefined ELSE Cell(basic, f)]]

combineMarketData_RightJoin(dailyData, basicData) ==
    [i \in 1..Len(basicData) |->
        CombinedRecord(basicData[i], BasicDataMapGet(basicData, ItemKey(basicData[i])))]

\* combinedData = dailyData.map(daily => ...)
combineMarketData(dailyData, basicData) ==
    [i \in 1..Len(dailyData) |->
        CombinedRecord(dailyData[i], BasicDataMapGet(basicData, ItemKey(dailyData[i])))]

(***************************************************************************)
(* StatsAggregator                                                         *)
(***************************************************************************)
\* Math.round((count / total) * 100), NaN for 0 / 0.
RoundPercent(count, total) ==
    IF total = 0 THEN NaN ELSE Num((200 * count + total) \div (2 * total))

\* stock.industry || 'unknown label'
IndustryOf(stock) == IF stock.industry = <<>> THEN IndustryUnknown ELSE stock.industry

\* Object.entries(industryCount): the labels in the order they were first
\* seen, each with its count.
RECURSIVE IndustryEntries(_)
IndustryEntries(stocks) ==
    IF stocks = <<>> THEN <<>>
    ELSE LET before == IndustryEntries(SubSeq(stocks, 1, Len(stocks) - 1))
             label == IndustryOf(stocks[Len(stocks)])
         IN  IF \E i \in 1..Len(before) : before[i].industry = label
             THEN [i \in 1..Len(before) |->
                      IF before[i].industry = label
                      THEN [industry |-> label, count |-> before[i].count + 1]
                      ELSE before[i]]
             ELSE Append(before, [industry |-> label, count |-> 1])

RECURSIVE SortByCountDesc_LastOfTies(_)
SortByCountDesc_LastOfTies(entries) ==
    IF entries = <<>> THEN <<>>
    ELSE LET first == CHOOSE i \in 1..Len(entries) :
                          /\ \A j \in 1..Len(entries) : entries[j].count <= entries[i].count
                          /\ \A j \in (i + 1)..Len(entries) : entries[j].count < entries[i].count
         IN  <<entries[first]>> \o
             SortByCountDesc_LastOfTies(SubSeq(entries, 1, first - 1)
                                        \o SubSeq(entries, first + 1, Len(entries)))

\* .sort(([,a], [,b]) => b - a): stable, descending by count.
RECURSIVE SortByCountDesc(_)
SortByCountDesc(entries) ==
    IF entries = <<>> THEN <<>>
    ELSE LET first == CHOOSE i \in 1..Len(entries) :
                          /\ \A j \in 1..Len(entries) : entries[j].count <= entries[i].count
                          /\ \A j \in 1..(i - 1) : entries[j].count < entries[i].count
         IN  <<entries[first]>> \o
             SortByCountDesc(SubSeq(entries, 1, first - 1)
                             \o SubSeq(entries, first + 1, Len(entries)))

getTopIndustries(stocks, top) ==
    LET sorted == SortByCountDesc(IndustryEntries(stocks))
        kept == SubSeq(sorted, 1, IF top < Len(sorted) THEN top ELSE Len(sorted))
    IN  [i \in 1..Len(kept) |->
            [industry |-> kept[i].industry, count |-> kept[i].count,
             percentage |-> RoundPercent(kept[i].count, Len(stocks))]]

TopIndustries == 10

\* getTopIndustries of the stock-basic endpoint: only the records that have
\* an industry are counted, and an entry has no percentage.
HasIndustry(stock) == stock.industry # <<>>

getTopIndustriesOfBasic(stocks, top) ==
    LET sorted == SortByCountDesc(IndustryEntries(SelectSeq(stocks, HasIndustry)))
        kept == SubSeq(sorted, 1, IF top < Len(sorted) THEN top ELSE Len(sorted))
    IN  [i \in 1..Len(kept) |->
            [industry |-> kept[i].industry, count |-> kept[i].count]]

TopIndustriesOfBasic == 5

\* s.currentPrice && s.currentPrice > 0
HasPrice(stock) ==
    /\ stock.quote["currentPrice"] # Undefined
    /\ stock.quote["currentPrice"].value > 0

\* s['TTM...'] && s['TTM...'] > 0
HasPe(stock) ==
    /\ stock.indicators["pe"] # Undefined
    /\ stock.indicators["pe"].value > 0

IsSH(stock) == stock.market = SH
IsSZ(stock) == stock.market = SZ

generateBatchStats(stocks, metadata) ==
    LET withMarket ==
            IF metadata.has_market_data
            THEN Cardinality({i \in 1..Len(stocks) : HasPrice(stocks[i])}) ELSE 0
        withBasic ==
            IF metadata.has_basic_indicators
            THEN Cardinality({i \in 1..Len(stocks) : HasPe(stocks[i])}) ELSE 0
    IN  [summary |-> [total_stocks |-> Len(stocks),
                      total_basic_available |-> metadata.total_basic,
                      processed_count |-> metadata.processed,
                      with_market_data |-> withMarket,
                      with_basic_indicators |-> withBasic,
                      trade_date |-> metadata.trade_date],
         markets |-> [SH |-> Cardinality({i \in 1..Len(stocks) : IsSH(stocks[i])}),
                      SZ |-> Cardinality({i \in 1..Len(stocks) : IsSZ(stocks[i])})],
         industries |-> getTopIndustries(stocks, TopIndustries),
         data_quality |->
             [basic_info_complete |-> Len(stocks),
              market_data_coverage |->
                  IF metadata.has_market_data
                  THEN RoundPercent(withMarket, Len(stocks)) ELSE Num(0),
              basic_indicators_coverage |->
                  IF metadata.has_basic_indicators
                  THEN RoundPercent(withBasic, Len(stocks)) ELSE Num(0)],
         performance |->
             [data_sources |->
                  (IF metadata.has_market_data THEN <<"daily_market_data">> ELSE <<>>)
                  \o (IF metadata.has_basic_indicators
                      THEN <<"daily_basic_indicators">> ELSE <<>>),
              api_calls_made |-> 1 + (IF metadata.has_market_data THEN 1 ELSE 0)
                                   + (IF metadata.has_basic_indicators THEN 1 ELSE 0),
              total_records_processed |-> Len(stocks)]]

RECURSIVE SumClose(_)
SumClose(data) ==
    IF data = <<>> THEN 0 ELSE data[Len(data)].close + SumClose(SubSeq(data, 1, Len(data) - 1))

\* Order of two strings of digits under Array.prototype.sort.
RECURSIVE StrLeq(_, _)
StrLeq(a, b) ==
    IF a = <<>> THEN TRUE
    ELSE IF b = <<>> THEN FALSE
    ELSE IF a[1] = b[1] THEN StrLeq(Tail(a), Tail(b))
    ELSE (CHOOSE n \in 1..10 : DigitChars[n] = a[1])
         < (CHOOSE n \in 1..10 : DigitChars[n] = b[1])

IsSHItem(item) == Includes(item.ts_code, <<".">> \o SH)
IsSZItem(item) == ~IsSHItem(item) /\ Includes(item.ts_code, <<".">> \o SZ)

\* generateMarketStats over the fields the rows carry (ts_code, trade_date,
\* close); avg_close is kept in hundredths.
generateMarketStats(data) ==
    IF Len(data) = 0 THEN [null |-> TRUE]
    ELSE LET dates == {data[i].trade_date : i \in 1..Len(data)}
         IN  [total_records |-> Len(data),
              date_range |->
                  [start |-> CHOOSE d \in dates : \A e \in dates : StrLeq(d, e),
                   end |-> CHOOSE d \in dates : \A e \in dates : StrLeq(e, d)],
              markets |-> [SH |-> Cardinality({i \in 1..Len(data) : IsSHItem(data[i])}),
                           SZ |-> Cardinality({i \in 1..Len(data) : IsSZItem(data[i])})],
              price_stats |->
                  [avg_close_hundredths |->
                       (200 * SumClose(data) + Len(data)) \div (2 * Len(data))]]

(***************************************************************************)
(* TushareClient.call in time: the rate-limit delay, the request, the      *)
(* answer                                                                  *)
(***************************************************************************)
Latencies == {50}

Cap(t) == IF t > RateLimitDelay THEN RateLimitDelay ELSE t

\* call(): await this.delay(this.rateLimit) starts the call's own timer.
StartCallTimer(pending, api) ==
    [k \in DOMAIN pending \cup {api} |->
        IF k = api THEN [phase |-> "delay", remaining |-> RateLimitDelay]
        ELSE pending[k]]

\* The calls left when api is gone and `time` has passed.
Elapse(pending, api, time) ==
    [k \in DOMAIN pending \ {api} |->
        [pending[k] EXCEPT !.remaining = pending[k].remaining - time]]

\* The next event in time is api's.
Due(api) ==
    /\ api \in DOMAIN inflight
    /\ \A k \in DOMAIN inflight : inflight[api].remaining <= inflight[k].remaining

\* The answer of api arrives now.
Landed(api) == Due(api) /\ inflight[api].phase = "sent"

\* The delay of a call ends and fetch sends its request: lines 56-64.
Dispatch(api, latency) ==
    /\ Due(api)
    /\ inflight[api].phase = "delay"
    /\ dispatchGaps' = Append(dispatchGaps, Cap(sinceDispatch + inflight[api].remaining))
    /\ sinceDispatch' = 0
    /\ inflight' = [k \in DOMAIN inflight |->
                       IF k = api THEN [phase |-> "sent", remaining |-> latency]
                       ELSE [inflight[k] EXCEPT
                                 !.remaining = @ - inflight[api].remaining]]
    /\ UNCHANGED <<req, pc, upstream, roster, dailyDataMap, basicIndicatorsMap,
                   fetched, resp>>
    /\ UNCHANGED <<timeZone, unitVars, genVars, calVars>>

\* Time passes until the answer of api arrives.
AnswerArrives(api) ==
    /\ Landed(api)
    /\ sinceDispatch' = Cap(sinceDispatch + inflight[api].remaining)
    /\ UNCHANGED dispatchGaps

(***************************************************************************)
(* The batch-fetch endpoint                                                *)
(***************************************************************************)
HK == <<"H", "K">>
BadDate == <<"2", "0", "2", "4", "-", "0", "1", "-", "0", "2">>
BadCode == <<"6", "0", "0", "0", "0", "0">>
DefaultTradeDate == Date2

MarketParams == {<<>>, SH, HK}
TradeDateParams == {<<>>, Date1, BadDate}
LimitParams == {<<>>, <<"0">>, <<"1">>, <<"x">>}

Failed(kind) == [ok |-> FALSE, kind |-> kind]
Rows(rows) == [ok |-> TRUE, rows |-> rows]
RosterOutcomes ==
    {Failed(k) : k \in CallFailures} \cup {Rows(r) : r \in RosterListsUpTo(MaxRoster)}
OverlayOutcomes ==
    {Failed(k) : k \in CallFailures} \cup {Rows(r) : r \in OverlayListsUpTo(MaxOverlay)}

\* new TushareClient(): the error of a missing TUSHARE_TOKEN, or NoError.
NewClient(token) ==
    IF token THEN NoError ELSE [name |-> "Error", message |-> MsgTokenRequired]

\* The first exception of the checks before the try block's first call.
BatchPrecheck(market, trade_date, token) ==
    IF market # <<>> /\ market \notin {SH, SZ}
    THEN [name |-> "Error", message |-> MsgMarket]
    ELSE IF dateFormat(trade_date, <<"t", "r", "a", "d", "e", "_", "d", "a", "t", "e">>) # NoError
    THEN dateFormat(trade_date, <<"t", "r", "a", "d", "e", "_", "d", "a", "t", "e">>)
    ELSE NewClient(token)

\* Lines 121-153: merge, statistics and the success response.
BatchResponse(request, stockBasicData, dailyMap, indicatorsMap) ==
    LET limitedStockData == ApplyLimit(stockBasicData, request.limit)
        stocks == batchMergeStockData(limitedStockData, dailyMap, indicatorsMap,
                                      request.trade_date)
    IN  success(stocks,
                generateBatchStats(stocks,
                    [total_basic |-> Len(stockBasicData),
                     processed |-> Len(limitedStockData),
                     has_market_data |-> dailyMap # Undefined,
                     has_basic_indicators |-> indicatorsMap # Undefined,
                     market_data_count |-> DataMapSize(dailyMap),
                     basic_indicators_count |-> DataMapSize(indicatorsMap),
                     trade_date |-> request.trade_date]))

BatchGET_StartsQuoteToo(market, trade_date, limit, include_market_data, include_basic_indicators, token) ==
    /\ pc = "idle"
    /\ LET date == IF trade_date = <<>> THEN DefaultTradeDate ELSE trade_date
           err == BatchPrecheck(market, date, token)
       IN  /\ req' = [endpoint |-> "batch", trade_date |-> date, limit |-> limit,
                      include_market_data |-> include_market_data,
                      include_basic_indicators |-> include_basic_indicators]
           /\ IF err # NoError
              THEN /\ resp' = handleError(err)
                   /\ pc' = "done"
                   /\ UNCHANGED <<upstream, inflight>>
              ELSE /\ upstream' = upstream \o <<"stock_basic">>
                                  \o (IF include_market_data THEN <<"daily">> ELSE <<>>)
                   /\ inflight' = IF include_market_data
                                  THEN StartCallTimer(StartCallTimer(inflight, "stock_basic"),
                                                      "daily")
                                  ELSE StartCallTimer(inflight, "stock_basic")
                   /\ pc' = "awaitRoster"
                   /\ UNCHANGED resp
    /\ UNCHANGED <<sinceDispatch, dispatchGaps>>
    /\ UNCHANGED <<roster, dailyDataMap, basicIndicatorsMap, fetched>>
    /\ UNCHANGED <<timeZone, unitVars, genVars, calVars>>

\* GET up to its first await: parameters, checks, client, getStockBasic.
BatchGET(market, trade_date, limit, include_market_data, include_basic_indicators, token) ==
    /\ pc = "idle"
    /\ LET date == IF trade_date = <<>> THEN DefaultTradeDate ELSE trade_date
           err == BatchPrecheck(market, date, token)
       IN  /\ req' = [endpoint |-> "batch", trade_date |-> date, limit |-> limit,
                      include_market_data |-> include_market_data,
                      include_basic_indicators |-> include_basic_indicators]
           /\ IF err # NoError
              THEN /\ resp' = handleError(err)
                   /\ pc' = "done"
                   /\ UNCHANGED <<upstream, inflight>>
              ELSE /\ upstream' = Append(upstream, "stock_basic")
                   /\ inflight' = StartCallTimer(inflight, "stock_basic")
                   /\ pc' = "awaitRoster"
                   /\ UNCHANGED resp
    /\ UNCHANGED <<sinceDispatch, dispatchGaps>>
    /\ UNCHANGED <<roster, dailyDataMap, basicIndicatorsMap, fetched>>
    /\ UNCHANGED <<timeZone, unitVars, genVars, calVars>>

\* The handler after the roster, from line 76 to its next await or its
\* response; stockBasicData, dailyMap and indicatorsMap are its locals so far.
BatchContinue(stage, stockBasicData, dailyMap, indicatorsMap) ==
    IF stage = "quote" /\ req.include_market_data
    THEN /\ upstream' = Append(upstream, "daily")
         /\ inflight' = StartCallTimer(EmptyMap, "daily")
         /\ pc' = "awaitQuote"
         /\ UNCHANGED resp
    ELSE IF req.include_basic_indicators
    THEN /\ upstream' = Append(upstream, "daily_basic")
         /\ inflight' = StartCallTimer(EmptyMap, "daily_basic")
         /\ pc' = "awaitIndicators"
         /\ UNCHANGED resp
    ELSE /\ resp' = BatchResponse(req, stockBasicData, dailyMap, indicatorsMap)
         /\ pc' = "done"
         /\ inflight' = EmptyMap
         /\ UNCHANGED upstream

\* The quote step once both overlays are behind: the response.
BatchFinish(stockBasicData, dailyMap, indicatorsMap) ==
    /\ resp' = BatchResponse(req, stockBasicData, dailyMap, indicatorsMap)
    /\ pc' = "done"
    /\ inflight' = EmptyMap
    /\ UNCHANGED upstream

BatchRosterSettles_AcceptEmpty(outcome) ==
    /\ pc = "awaitRoster"
    /\ AnswerArrives("stock_basic")
    /\ fetched' = [k \in DOMAIN fetched \cup {"stock_basic"} |->
                      IF k = "stock_basic" THEN outcome ELSE fetched[k]]
    /\ IF ~outcome.ok
       THEN /\ resp' = handleError(CallError(outcome.kind))
            /\ pc' = "done"
            /\ inflight' = EmptyMap
            /\ UNCHANGED <<roster, upstream>>
       ELSE /\ roster' = outcome.rows
            /\ BatchContinue("quote", outcome.rows, dailyDataMap, basicIndicatorsMap)
    /\ UNCHANGED <<req, dailyDataMap, basicIndicatorsMap>>
    /\ UNCHANGED <<timeZone, unitVars, genVars, calVars>>

\* await client.getStockBasic(params) settles: lines 58-76.
BatchRosterSettles(outcome) ==
    /\ pc = "awaitRoster"
    /\ AnswerArrives("stock_basic")
    /\ fetched' = [k \in DOMAIN fetched \cup {"stock_basic"} |->
                      IF k = "stock_basic" THEN outcome ELSE fetched[k]]
    /\ IF ~outcome.ok
       THEN /\ resp' = handleError(CallError(outcome.kind))
            /\ pc' = "done"
            /\ inflight' = EmptyMap
            /\ UNCHANGED <<roster, upstream>>
       ELSE IF Len(outcome.rows) = 0
       THEN /\ resp' = handleError([name |-> "Error", message |-> MsgNoStockBasic])
            /\ pc' = "done"
            /\ inflight' = EmptyMap
            /\ UNCHANGED <<roster, upstream>>
       ELSE /\ roster' = outcome.rows
            /\ BatchContinue("quote", outcome.rows, dailyDataMap, basicIndicatorsMap)
    /\ UNCHANGED <<req, dailyDataMap, basicIndicatorsMap>>
    /\ UNCHANGED <<timeZone, unitVars, genVars, calVars>>

\* The overlay map a settled overlay call leaves: createDataMap of its rows
\* when it answered with rows, the map untouched (undefined) when it answered
\* with none or the catch block took its exception.
OverlayMap_EmptyOnFailure(outcome) ==
    IF outcome.ok /\ Len(outcome.rows) > 0 THEN createDataMap(outcome.rows)
    ELSE IF outcome.ok THEN Undefined ELSE [entries |-> <<>>]

OverlayMap(outcome) ==
    IF outcome.ok /\ Len(outcome.rows) > 0 THEN createDataMap(outcome.rows)
    ELSE Undefined

BatchQuoteSettles_Abort(outcome) ==
    /\ pc = "awaitQuote"
    /\ AnswerArrives("daily")
    /\ fetched' = [k \in DOMAIN fetched \cup {"daily"} |->
                      IF k = "daily" THEN outcome ELSE fetched[k]]
    /\ dailyDataMap' = OverlayMap(outcome)
    /\ IF ~outcome.ok
       THEN /\ resp' = handleError(CallError(outcome.kind))
            /\ pc' = "done"
            /\ inflight' = EmptyMap
            /\ UNCHANGED upstream
       ELSE BatchContinue("indicators", roster, dailyDataMap', basicIndicatorsMap)
    /\ UNCHANGED <<req, roster, basicIndicatorsMap>>
    /\ UNCHANGED <<timeZone, unitVars, genVars, calVars>>

BatchQuoteSettles_Retry(outcome) ==
    /\ pc = "awaitQuote"
    /\ AnswerArrives("daily")
    /\ IF ~outcome.ok /\ Len(upstream) < 3
       THEN /\ upstream' = Append(upstream, "daily")
            /\ inflight' = StartCallTimer(EmptyMap, "daily")
            /\ UNCHANGED <<pc, resp, fetched, dailyDataMap>>
       ELSE /\ fetched' = [k \in DOMAIN fetched \cup {"daily"} |->
                              IF k = "daily" THEN outcome ELSE fetched[k]]
            /\ dailyDataMap' = OverlayMap(outcome)
            /\ BatchContinue("indicators", roster, dailyDataMap', basicIndicatorsMap)
    /\ UNCHANGED <<req, roster, basicIndicatorsMap>>
    /\ UNCHANGED <<timeZone, unitVars, genVars, calVars>>

\* await client.getDailyData(...) settles inside its try block: lines 78-100.
BatchQuoteSettles(outcome) ==
    /\ pc = "awaitQuote"
    /\ AnswerArrives("daily")
    /\ fetched' = [k \in DOMAIN fetched \cup {"daily"} |->
                      IF k = "daily" THEN outcome ELSE fetched[k]]
    /\ dailyDataMap' = OverlayMap(outcome)
    /\ BatchContinue("indicators", roster, dailyDataMap', basicIndicatorsMap)
    /\ UNCHANGED <<req, roster, basicIndicatorsMap>>
    /\ UNCHANGED <<timeZone, unitVars, genVars, calVars>>

\* await client.getDailyBasic(...) settles inside its try block, and the
\* handler runs to its response: lines 100-153.
BatchIndicatorsSettle(outcome) ==
    /\ pc = "awaitIndicators"
    /\ AnswerArrives("daily_basic")
    /\ fetched' = [k \in DOMAIN fetched \cup {"daily_basic"} |->
                      IF k = "daily_basic" THEN outcome ELSE fetched[k]]
    /\ basicIndicatorsMap' = OverlayMap(outcome)
    /\ BatchFinish(roster, dailyDataMap, basicIndicatorsMap')
    /\ UNCHANGED <<req, roster, dailyDataMap>>
    /\ UNCHANGED <<timeZone, unitVars, genVars, calVars>>

(***************************************************************************)
(* The market-data endpoint                                                *)
(***************************************************************************)
\* A code parameter that is a word: ?ts_code=fetch
WordCode == <<"f", "e", "t", "c", "h">>
CodeParams == {<<>>, CodeA, BadCode, WordCode}
RangeParams == {<<>>, Date1, BadDate}

\* The first exception of the checks of lines 147-162.
MarketPrecheck(ts_code, trade_date, start_date, end_date, token) ==
    IF dateFormat(trade_date, <<"t", "r", "a", "d", "e", "_", "d", "a", "t", "e">>) # NoError
    THEN dateFormat(trade_date, <<"t", "r", "a", "d", "e", "_", "d", "a", "t", "e">>)
    ELSE IF dateFormat(start_date, <<"s", "t", "a", "r", "t", "_", "d", "a", "t", "e">>) # NoError
    THEN dateFormat(start_date, <<"s", "t", "a", "r", "t", "_", "d", "a", "t", "e">>)
    ELSE IF dateFormat(end_date, <<"e", "n", "d", "_", "d", "a", "t", "e">>) # NoError
    THEN dateFormat(end_date, <<"e", "n", "d", "_", "d", "a", "t", "e">>)
    ELSE IF stockCode(ts_code, <<"t", "s", "_", "c", "o", "d", "e">>) # NoError
    THEN stockCode(ts_code, <<"t", "s", "_", "c", "o", "d", "e">>)
    ELSE NewClient(token)

\* Lines 190-247: merge, limit, statistics and the success response.
MarketResponse(request, dailyData, basicData) ==
    LET combinedData ==
            IF request.include_basic /\ Len(basicData) > 0
            THEN combineMarketData(dailyData, basicData)
            ELSE [i \in 1..Len(dailyData) |-> CombinedRecord(dailyData[i], Undefined)]
        result == ApplyLimit(combinedData, request.limit)
    IN  success(result, generateMarketStats(result))

\* GET up to await Promise.all(promises): parameters, checks, client, and the
\* calls pushed onto promises.
MarketGET(ts_code, trade_date, start_date, end_date, limit, include_basic, token) ==
    /\ pc = "idle"
    /\ LET date == IF trade_date = <<>> THEN DefaultTradeDate ELSE trade_date
           err == MarketPrecheck(ts_code, date, start_date, end_date, token)
       IN  /\ req' = [endpoint |-> "market", limit |-> limit,
                      include_basic |-> include_basic]
           /\ IF err # NoError
              THEN /\ resp' = handleError(err)
                   /\ pc' = "done"
                   /\ UNCHANGED <<upstream, inflight>>
              ELSE /\ upstream' = upstream \o <<"daily">>
                                  \o (IF include_basic THEN <<"daily_basic">> ELSE <<>>)
                   /\ inflight' = IF include_basic
                                  THEN StartCallTimer(StartCallTimer(inflight, "daily"),
                                                      "daily_basic")
                                  ELSE StartCallTimer(inflight, "daily")
                   /\ pc' = "awaitAll"
                   /\ UNCHANGED resp
    /\ UNCHANGED <<sinceDispatch, dispatchGaps>>
    /\ UNCHANGED <<roster, dailyDataMap, basicIndicatorsMap, fetched>>
    /\ UNCHANGED <<timeZone, unitVars, genVars, calVars>>

\* One of the promises settles. Promise.all rejects with the first rejection
\* and resolves when every promise has resolved; a call still in flight
\* after the rejection settles unobserved.
MarketCallSettles(api, outcome) ==
    /\ req.endpoint = "market"
    /\ AnswerArrives(api)
    /\ inflight' = Elapse(inflight, api, inflight[api].remaining)
    /\ fetched' = [k \in DOMAIN fetched \cup {api} |->
                      IF k = api THEN outcome ELSE fetched[k]]
    /\ IF pc = "awaitAll" /\ ~outcome.ok
       THEN /\ resp' = handleError(CallError(outcome.kind))
            /\ pc' = "done"
       ELSE IF pc = "awaitAll" /\ DOMAIN inflight' = {}
       THEN /\ resp' = MarketResponse(req, fetched'["daily"].rows,
                                      IF req.include_basic
                                      THEN fetched'["daily_basic"].rows ELSE <<>>)
            /\ pc' = "done"
       ELSE UNCHANGED <<resp, pc>>
    /\ UNCHANGED <<req, upstream, roster, dailyDataMap, basicIndicatorsMap>>
    /\ UNCHANGED <<timeZone, unitVars, genVars, calVars>>

(***************************************************************************)
(* The aggregation endpoints serving one request                           *)
(***************************************************************************)
AggInit ==
    /\ timeZone = 0
    /\ UnitIdle
    /\ GenIdle
    /\ CalIdle
    /\ AggIdle

AggNext ==
    \/ \E market \in MarketParams, trade_date \in TradeDateParams,
          limit \in LimitParams, include_market_data \in BOOLEAN,
          include_basic_indicators \in BOOLEAN, token \in BOOLEAN :
           BatchGET(market, trade_date, limit, include_market_data,
                    include_basic_indicators, token)
    \/ \E outcome \in RosterOutcomes : BatchRosterSettles(outcome)
    \/ \E outcome \in OverlayOutcomes : BatchQuoteSettles(outcome)
    \/ \E outcome \in OverlayOutcomes : BatchIndicatorsSettle(outcome)
    \/ \E ts_code \in CodeParams, trade_date \in TradeDateParams,
          start_date \in RangeParams, end_date \in RangeParams,
          limit \in LimitParams, include_basic \in BOOLEAN, token \in BOOLEAN :
           MarketGET(ts_code, trade_date, start_date, end_date, limit, include_basic,
                     token)
    \/ \E api \in {"daily", "daily_basic"}, outcome \in OverlayOutcomes :
           MarketCallSettles(api, outcome)
    \/ \E api \in {"stock_basic", "daily", "daily_basic"}, latency \in Latencies :
           Dispatch(api, latency)

SpecAgg == AggInit /\ [][AggNext]_vars

\* The same endpoints on a running event loop, over the answers that decide
\* which call a handler makes next (a failure, no rows, one row). Once a
\* request is in progress, a timer that is due fires, a request that was sent
\* is answered or fails, and a handler that can continue does.
FlowRosterOutcomes == {Failed("network"), Rows(<<>>), Rows(<<RosterRow(CodeA)>>)}
FlowOverlayOutcomes ==
    {Failed("network"), Rows(<<>>)} \cup
    {Rows(<<[ts_code |-> CodeA, trade_date |-> d, id |-> 1, close |-> 10]>>) :
         d \in RowDates}

\* The steps of a request in progress.
FlowSteps ==
    \/ \E outcome \in FlowRosterOutcomes : BatchRosterSettles(outcome)
    \/ \E outcome \in FlowOverlayOutcomes : BatchQuoteSettles(outcome)
    \/ \E outcome \in FlowOverlayOutcomes : BatchIndicatorsSettle(outcome)
    \/ \E api \in {"daily", "daily_basic"}, outcome \in FlowOverlayOutcomes :
           MarketCallSettles(api, outcome)
    \/ \E api \in {"stock_basic", "daily", "daily_basic"}, latency \in Latencies :
           Dispatch(api, latency)

FlowNext ==
    \/ \E market \in MarketParams, trade_date \in TradeDateParams,
          limit \in LimitParams, include_market_data \in BOOLEAN,
          include_basic_indicators \in BOOLEAN, token \in BOOLEAN :
           BatchGET(market, trade_date, limit, include_market_data,
                    include_basic_indicators, token)
    \/ \E ts_code \in CodeParams, trade_date \in TradeDateParams,
          start_date \in RangeParams, end_date \in RangeParams,
          limit \in LimitParams, include_basic \in BOOLEAN, token \in BOOLEAN :
           MarketGET(ts_code, trade_date, start_date, end_date, limit, include_basic,
                     token)
    \/ FlowSteps

SpecFlow == AggInit /\ [][FlowNext]_vars /\ WF_vars(FlowSteps)

(***************************************************************************)
(* The trade-calendar endpoint                                             *)
(***************************************************************************)
HKEX == <<"H", "K", "E", "X">>
ExchangeParams == {<<>>, SSE, HKEX}
IsOpenParams == {<<>>, <<"1">>, <<"2">>}
DefaultStartDate == Date1
DefaultEndDate == Date2

\* The first exception of lines 22-37.
TradeCalPrecheck_NoExchangeCheck(exch, start_date, end_date, token) ==
    IF dateFormat(start_date, <<"s", "t", "a", "r", "t", "_", "d", "a", "t", "e">>) # NoError
    THEN dateFormat(start_date, <<"s", "t", "a", "r", "t", "_", "d", "a", "t", "e">>)
    ELSE IF dateFormat(end_date, <<"e", "n", "d", "_", "d", "a", "t", "e">>) # NoError
    THEN dateFormat(end_date, <<"e", "n", "d", "_", "d", "a", "t", "e">>)
    ELSE NewClient(token)

TradeCalPrecheck(exch, start_date, end_date, token) ==
    IF dateFormat(start_date, <<"s", "t", "a", "r", "t", "_", "d", "a", "t", "e">>) # NoError
    THEN dateFormat(start_date, <<"s", "t", "a", "r", "t", "_", "d", "a", "t", "e">>)
    ELSE IF dateFormat(end_date, <<"e", "n", "d", "_", "d", "a", "t", "e">>) # NoError
    THEN dateFormat(end_date, <<"e", "n", "d", "_", "d", "a", "t", "e">>)
    ELSE IF exch # <<>> /\ exch \notin {SSE, SZSE}
    THEN [name |-> "Error", message |-> <<"I", "n", "v", "a", "l", "i", "d", " ", "e", "x", "c", "h", "a", "n", "g", "e", ".", " ", "U", "s", "e", " ", "S", "S", "E", " ", "o", "r", " ", "S", "Z", "S", "E">>]
    ELSE NewClient(token)

\* params.is_open of lines 45-50: set for '0' and '1' only.
IsOpenFilter(is_open) ==
    IF ~parseInt(is_open).nan /\ parseInt(is_open).value \in {0, 1}
    THEN Num(parseInt(is_open).value)
    ELSE Undefined

\* A value of a row: a number or a string.
Number(n) == [type |-> "number", n |-> n]
String(str) == [type |-> "string", s |-> str]

\* typeof item.is_open === 'number' ? item.is_open : parseInt(item.is_open) || 0
NormalIsOpen(is_open) ==
    IF is_open.type = "number" THEN is_open.n
    ELSE IF parseInt(is_open.s).nan THEN 0
    ELSE parseInt(is_open.s).value

CalendarRows ==
    {[exchange |-> x, cal_date |-> Date1, is_open |-> o, pretrade_date |-> <<>>] :
        x \in {<<>>, SZSE}, o \in {Number(1), String(<<"1">>), String(<<"x">>)}}
CalendarOutcomes ==
    {Failed(k) : k \in CallFailures} \cup
    {Rows(r) : r \in {<<>>} \cup {<<a>> : a \in CalendarRows}
                     \cup {<<a, b>> : a \in CalendarRows, b \in CalendarRows}}

\* Lines 56-62.
TransformCalendar(tradeCal, exch) ==
    [i \in 1..Len(tradeCal) |->
        [exchange |-> IF tradeCal[i].exchange = <<>> THEN exch
                      ELSE tradeCal[i].exchange,
         cal_date |-> tradeCal[i].cal_date,
         is_open |-> NormalIsOpen(tradeCal[i].is_open),
         pretrade_date |-> tradeCal[i].pretrade_date]]

\* generateCalendarStats; trading_ratio, a number of two decimals, in
\* hundredths.
generateCalendarStats(data, startDate, endDate) ==
    LET trading == Cardinality({i \in 1..Len(data) : data[i].is_open = 1})
    IN  [total_days |-> Len(data),
         trading_days |-> trading,
         non_trading_days |-> Len(data) - trading,
         date_range |-> [start |-> startDate, end |-> endDate],
         trading_ratio |-> IF Len(data) > 0
                           THEN (20000 * trading + Len(data)) \div (2 * Len(data))
                           ELSE 0,
         exchanges |->
             [x \in {data[i].exchange : i \in 1..Len(data)} |->
                 [trading |-> Cardinality({i \in 1..Len(data) :
                                  data[i].exchange = x /\ data[i].is_open = 1}),
                  total |-> Cardinality({i \in 1..Len(data) : data[i].exchange = x})]]]

\* GET up to await client.getTradeCal(params).
TradeCalGET(exch, start_date, end_date, is_open, token) ==
    /\ pc = "idle"
    /\ LET x == IF exch = <<>> THEN SSE ELSE exch
           start == IF start_date = <<>> THEN DefaultStartDate ELSE start_date
           end == IF end_date = <<>> THEN DefaultEndDate ELSE end_date
           err == TradeCalPrecheck(x, start, end, token)
       IN  /\ req' = [endpoint |-> "calendar", exchange |-> x, start_date |-> start,
                      end_date |-> end, is_open |-> IsOpenFilter(is_open)]
           /\ IF err # NoError
              THEN /\ resp' = handleError(err)
                   /\ pc' = "done"
                   /\ UNCHANGED <<upstream, inflight>>
              ELSE /\ upstream' = Append(upstream, "trade_cal")
                   /\ inflight' = StartCallTimer(inflight, "trade_cal")
                   /\ pc' = "awaitCalendar"
                   /\ UNCHANGED resp
    /\ UNCHANGED <<sinceDispatch, dispatchGaps>>
    /\ UNCHANGED <<roster, dailyDataMap, basicIndicatorsMap, fetched>>
    /\ UNCHANGED <<timeZone, unitVars, genVars, calVars>>

\* await client.getTradeCal(params) settles: lines 53-81.
TradeCalSettles(outcome) ==
    /\ pc = "awaitCalendar"
    /\ AnswerArrives("trade_cal")
    /\ inflight' = EmptyMap
    /\ fetched' = [k \in DOMAIN fetched \cup {"trade_cal"} |->
                      IF k = "trade_cal" THEN outcome ELSE fetched[k]]
    /\ resp' = IF ~outcome.ok THEN handleError(CallError(outcome.kind))
               ELSE LET transformedData == TransformCalendar(outcome.rows, req.exchange)
                    IN  success(transformedData,
                                generateCalendarStats(transformedData, req.start_date,
                                                      req.end_date))
    /\ pc' = "done"
    /\ UNCHANGED <<req, upstream, roster, dailyDataMap, basicIndicatorsMap>>
    /\ UNCHANGED <<timeZone, unitVars, genVars, calVars>>

(***************************************************************************)
(* The stk-mins endpoint                                                   *)
(***************************************************************************)
Freq5 == <<"5", "m", "i", "n">>
Freq60 == <<"6", "0", "m", "i", "n">>
Freq2 == <<"2", "m", "i", "n">>
ValidFreqs == {<<"1", "m", "i", "n">>, Freq5, <<"1", "5", "m", "i", "n">>, <<"3", "0", "m", "i", "n">>, Freq60}
FreqParams == {<<>>, Freq5, Freq2}
DaysParams == {<<>>, <<"1">>, <<"x">>}
TimeParams == {<<>>, <<"2", "0", "2", "4", "-", "0", "1", "-", "0", "2", " ", "0", "9", ":", "0", "0", ":", "0", "0">>, Date1}

\* ApiResponseHandler.error(message, 'VALIDATION_ERROR', 400)
ValidationResponse ==
    [sent |-> TRUE, success |-> FALSE, code |-> "VALIDATION_ERROR", status |-> 400]

\* Lines 22-43: the response returned or the exception thrown before the
\* first call, as an error response; NoError when there is none.
StkMinsPrecheck(ts_code, freq, token) ==
    IF ts_code = <<>> THEN ValidationResponse
    ELSE IF stockCode(ts_code, <<"t", "s", "_", "c", "o", "d", "e">>) # NoError
    THEN handleError(stockCode(ts_code, <<"t", "s", "_", "c", "o", "d", "e">>))
    ELSE IF freq \notin ValidFreqs THEN ValidationResponse
    ELSE IF NewClient(token) # NoError THEN handleError(NewClient(token))
    ELSE NoError

\* getKLineCountPerDay(freq)
getKLineCountPerDay(freq) ==
    CASE freq = <<"1", "m", "i", "n">> -> 240
      [] freq = Freq5 -> 48
      [] freq = <<"1", "5", "m", "i", "n">> -> 16
      [] freq = <<"3", "0", "m", "i", "n">> -> 8
      [] OTHER -> 4

\* A row of stk_mins: trade_time is the hour of its bar on one trading day.
MinuteRows ==
    {[trade_time |-> t, high |-> 12, low |-> l, vol |-> v] :
        t \in {10, 14}, l \in {9, 11}, v \in {0, 5}}
MinuteOutcomes ==
    {Failed(k) : k \in CallFailures} \cup
    {Rows(r) : r \in {<<>>} \cup {<<a>> : a \in MinuteRows}
                     \cup {<<a, b>> : a \in MinuteRows, b \in MinuteRows}}

\* .sort((a, b) => time(b) - time(a)): stable, the latest first.
RECURSIVE SortByTimeDesc(_)
SortByTimeDesc(rows) ==
    IF rows = <<>> THEN <<>>
    ELSE LET first == CHOOSE i \in 1..Len(rows) :
                          /\ \A j \in 1..Len(rows) : rows[j].trade_time <= rows[i].trade_time
                          /\ \A j \in 1..(i - 1) : rows[j].trade_time < rows[i].trade_time
         IN  <<rows[first]>> \o
             SortByTimeDesc(SubSeq(rows, 1, first - 1)
                            \o SubSeq(rows, first + 1, Len(rows)))

Reverse(rows) == [i \in 1..Len(rows) |-> rows[Len(rows) + 1 - i]]

SumVol(rows) ==
    LET Sum[n \in 0..Len(rows)] == IF n = 0 THEN 0 ELSE Sum[n - 1] + rows[n].vol
    IN  Sum[Len(rows)]

\* generateStkMinsStats(data, freq, days)
generateStkMinsStats(data, freq, days) ==
    IF Len(data) = 0 THEN Null
    ELSE LET highestPrice ==
                 CHOOSE h \in {0} \cup {data[i].high : i \in 1..Len(data)} :
                     /\ h >= 0
                     /\ \A i \in 1..Len(data) : data[i].high <= h
             lowestPrice ==
                 CHOOSE l \in {data[i].low : i \in 1..Len(data)} :
                     \A i \in 1..Len(data) : l <= data[i].low
         IN  [total_records |-> Len(data),
              frequency |-> freq,
              days_requested |-> days,
              time_range |-> [start |-> data[1].trade_time,
                              end |-> data[Len(data)].trade_time],
              price_stats |->
                  [highest_price |-> highestPrice,
                   lowest_price |-> lowestPrice,
                   price_change_total |-> highestPrice - lowestPrice,
                   avg_volume |-> (2 * SumVol(data) + Len(data)) \div (2 * Len(data))],
              trading_sessions |->
                  [morning_count |->
                       Cardinality({i \in 1..Len(data) :
                           data[i].trade_time >= 9 /\ data[i].trade_time < 12}),
                   afternoon_count |->
                       Cardinality({i \in 1..Len(data) :
                           data[i].trade_time >= 13 /\ data[i].trade_time < 16})]]

\* GET up to await client.getStkMins(...): lines 11-66. The time range is
\* the caller's, or when either end is missing one computed from the clock.
StkMinsGET(ts_code, freq, start_date, end_date, days, token) ==
    /\ pc = "idle"
    /\ LET f == IF freq = <<>> THEN Freq60 ELSE freq
           d == parseInt(IF days = <<>> THEN <<"5">> ELSE days)
           given == start_date # <<>> /\ end_date # <<>>
           err == StkMinsPrecheck(ts_code, f, token)
       IN  /\ req' = [endpoint |-> "stk-mins", ts_code |-> ts_code, freq |-> f,
                      days |-> d, given |-> given,
                      start_date |-> IF given THEN start_date ELSE <<>>,
                      end_date |-> IF given THEN end_date ELSE <<>>,
                      recent |-> ~d.nan /\ d.value # 0
                                 /\ start_date = <<>> /\ end_date = <<>>]
           /\ IF err # NoError
              THEN /\ resp' = err
                   /\ pc' = "done"
                   /\ UNCHANGED <<upstream, inflight>>
              ELSE /\ upstream' = Append(upstream, "stk_mins")
                   /\ inflight' = StartCallTimer(inflight, "stk_mins")
                   /\ pc' = "awaitMinutes"
                   /\ UNCHANGED resp
    /\ UNCHANGED <<sinceDispatch, dispatchGaps>>
    /\ UNCHANGED <<roster, dailyDataMap, basicIndicatorsMap, fetched>>
    /\ UNCHANGED <<timeZone, unitVars, genVars, calVars>>

\* await client.getStkMins(...) settles: lines 61-98.
StkMinsSettles(outcome) ==
    /\ pc = "awaitMinutes"
    /\ AnswerArrives("stk_mins")
    /\ inflight' = EmptyMap
    /\ fetched' = [k \in DOMAIN fetched \cup {"stk_mins"} |->
                      IF k = "stk_mins" THEN outcome ELSE fetched[k]]
    /\ resp' = IF ~outcome.ok THEN handleError(CallError(outcome.kind))
               ELSE LET sortedData == SortByTimeDesc(outcome.rows)
                        maxKLines == req.days.value * getKLineCountPerDay(req.freq)
                        kept == IF req.recent
                                THEN SubSeq(sortedData, 1,
                                            IF maxKLines < 0 THEN 0
                                            ELSE IF maxKLines < Len(sortedData)
                                            THEN maxKLines ELSE Len(sortedData))
                                ELSE sortedData
                        resultData == Reverse(kept)
                    IN  success(resultData,
                                generateStkMinsStats(resultData, req.freq, req.days))
    /\ pc' = "done"
    /\ UNCHANGED <<req, upstream, roster, dailyDataMap, basicIndicatorsMap>>
    /\ UNCHANGED <<timeZone, unitVars, genVars, calVars>>

(***************************************************************************)
(* The four endpoints serving one request                                  *)
(***************************************************************************)
EndpointNext ==
    \/ FlowNext
    \/ \E exch \in ExchangeParams, start_date \in RangeParams, end_date \in RangeParams,
          is_open \in IsOpenParams, token \in BOOLEAN :
           TradeCalGET(exch, start_date, end_date, is_open, token)
    \/ \E outcome \in CalendarOutcomes : TradeCalSettles(outcome)
    \/ \E ts_code \in CodeParams, freq \in FreqParams, start_date \in TimeParams,
          end_date \in TimeParams, days \in DaysParams, token \in BOOLEAN :
           StkMinsGET(ts_code, freq, start_date, end_date, days, token)
    \/ \E outcome \in MinuteOutcomes : StkMinsSettles(outcome)
    \/ \E api \in {"trade_cal", "stk_mins"}, latency \in Latencies :
           Dispatch(api, latency)

SpecEndpoints == AggInit /\ [][EndpointNext]_vars

(***************************************************************************)
(* Properties of the aggregation endpoints                                 *)
(***************************************************************************)
Succeeded(endpoint) ==
    /\ req.endpoint = endpoint
    /\ pc = "done"
    /\ resp.success

Settled(api) == api \in DOMAIN fetched
Raised(api) == Settled(api) /\ ~fetched[api].ok
Answered(api) == Settled(api) /\ fetched[api].ok

\* C1: the response of a merge has exactly as many records as the roster has
\* rows after the limit, the i-th record being the i-th roster row, whatever
\* the overlays hold: the batch endpoint over the stock_basic rows, the
\* market-data endpoint over the daily rows.
C1_OutputFollowsRoster ==
    /\ Succeeded("batch") =>
           LET limited == ApplyLimit(roster, req.limit)
           IN  /\ Len(resp.data) = Len(limited)
               /\ \A i \in 1..Len(limited) : resp.data[i].code = limited[i].ts_code
    /\ Succeeded("market") =>
           LET limited == ApplyLimit(fetched["daily"].rows, req.limit)
           IN  /\ Len(resp.data) = Len(limited)
               /\ \A i \in 1..Len(limited) :
                      /\ resp.data[i].id = limited[i].id
                      /\ resp.data[i].ts_code = limited[i].ts_code
                      /\ resp.data[i].trade_date = limited[i].trade_date

\* A market-data response of two records whose indicator rows came in another
\* order than the quote rows and include a row matching no quote row.
C1_Witness ==
    /\ Succeeded("market")
    /\ req.include_basic
    /\ Len(resp.data) = 2
    /\ \E j \in 1..Len(fetched["daily_basic"].rows) :
           \A i \in 1..Len(fetched["daily"].rows) :
               ItemKey(fetched["daily_basic"].rows[j]) # ItemKey(fetched["daily"].rows[i])
    /\ \E j \in 1..Len(fetched["daily_basic"].rows) :
           ItemKey(fetched["daily_basic"].rows[j]) = ItemKey(fetched["daily"].rows[2])

\* C2: when the fetch of an overlay raised, the batch response (records and
\* statistics) is the response the same roster gives with that overlay
\* absent.
C2_RaisedIsAbsent ==
    Succeeded("batch") =>
        /\ Raised("daily") =>
               resp = BatchResponse(req, roster, Undefined, basicIndicatorsMap)
        /\ Raised("daily_basic") =>
               resp = BatchResponse(req, roster, dailyDataMap, Undefined)

\* The quote fetch raised and the indicator overlay populated a record.
C2_Witness ==
    /\ Succeeded("batch")
    /\ Raised("daily")
    /\ Answered("daily_basic")
    /\ \E i \in 1..Len(resp.data) : resp.data[i].indicators["pe"] # Undefined

\* The overlay map the rows of a settled call give, undefined when the call
\* raised or answered with no rows.
AppliedMap(api) ==
    IF Answered(api) /\ Len(fetched[api].rows) > 0
    THEN createDataMap(fetched[api].rows) ELSE Undefined

\* C3: with both overlays requested and a roster fetched, the request
\* succeeds with every roster record, both overlay fetches are issued, and
\* the overlay that did not raise is applied to the records.
C3_OverlayFailureIsolated ==
    (/\ req.endpoint = "batch"
     /\ pc = "done"
     /\ req.include_market_data
     /\ req.include_basic_indicators
     /\ Answered("stock_basic")
     /\ Len(fetched["stock_basic"].rows) > 0) =>
        LET limited == ApplyLimit(roster, req.limit)
        IN  /\ resp.success
            /\ upstream = <<"stock_basic", "daily", "daily_basic">>
            /\ Len(resp.data) = Len(limited)
            /\ resp.data = batchMergeStockData(limited, AppliedMap("daily"),
                                               AppliedMap("daily_basic"), req.trade_date)

\* The quote fetch raised, the indicator fetch answered afterwards and its
\* row is on a record.
C3_Witness ==
    /\ Succeeded("batch")
    /\ req.include_market_data
    /\ req.include_basic_indicators
    /\ Raised("daily")
    /\ Answered("daily_basic")
    /\ Len(resp.data) = 2
    /\ \E i \in 1..Len(resp.data) : resp.data[i].indicators["pe"] # Undefined

RosterUnavailable ==
    /\ req.endpoint = "batch"
    /\ Settled("stock_basic")
    /\ (Raised("stock_basic") \/ Len(fetched["stock_basic"].rows) = 0)

\* C4: when the roster fetch raised or answered with no rows, the request
\* has ended with an error response without records, no overlay fetch was
\* issued and no overlay map was built.
C4_RosterFailureAborts ==
    RosterUnavailable =>
        /\ pc = "done"
        /\ resp.sent
        /\ ~resp.success
        /\ "data" \notin DOMAIN resp
        /\ upstream = <<"stock_basic">>
        /\ dailyDataMap = Undefined
        /\ basicIndicatorsMap = Undefined

\* The roster fetch answered with no rows although both overlays were
\* requested.
C4_Witness ==
    /\ RosterUnavailable
    /\ Answered("stock_basic")
    /\ req.include_market_data
    /\ req.include_basic_indicators

\* The group is entirely absent, or every field of it is present and comes
\* from one row of rows whose key is key.
AllOrNothing(group, fields, rows, key) ==
    \/ \A f \in fields : group[f] = Undefined
    \/ \E j \in 1..Len(rows) :
           /\ ItemKey(rows[j]) = key
           /\ \A f \in fields : group[f] = Cell(rows[j], f)

\* C5: on every record of a response, the fields of an overlay are all absent
\* or all present from one overlay row of the record's key.
C5_OverlayAllOrNothing ==
    /\ Succeeded("batch") =>
           \A i \in 1..Len(resp.data) :
               LET key == RecordKey(resp.data[i].code, req.trade_date)
               IN  /\ AllOrNothing(resp.data[i].quote, QuoteFields,
                                   IF Answered("daily") THEN fetched["daily"].rows
                                   ELSE <<>>, key)
                   /\ AllOrNothing(resp.data[i].indicators, IndicatorFields,
                                   IF Answered("daily_basic")
                                   THEN fetched["daily_basic"].rows ELSE <<>>, key)
    /\ Succeeded("market") =>
           \A i \in 1..Len(resp.data) :
               AllOrNothing(resp.data[i].basic, BasicFields,
                            IF Answered("daily_basic")
                            THEN fetched["daily_basic"].rows ELSE <<>>,
                            ItemKey(resp.data[i]))

\* A market-data response with one record carrying the indicator fields and
\* one without them, two indicator rows having been fetched.
C5_Witness ==
    /\ Succeeded("market")
    /\ Answered("daily_basic")
    /\ Len(fetched["daily_basic"].rows) = 2
    /\ \E i, j \in 1..Len(resp.data) :
           /\ resp.data[i].basic["pe"] # Undefined
           /\ resp.data[j].basic["pe"] = Undefined

\* C13: every request sent to the provider after the first one is sent at
\* least the rate-limit delay after the request before it.
C13_DispatchesSpaced ==
    \A i \in 2..Len(dispatchGaps) : dispatchGaps[i] >= RateLimitDelay

Issued(api) == \E i \in 1..Len(upstream) : upstream[i] = api

NumStr(n) == IF n < 0 THEN <<"-">> \o ToStr(0 - n) ELSE ToStr(n)

ProviderCodes == {0, 2002, -2001}
ProviderMsgs == {<<>>, <<"b", "a", "d", " ", "t", "o", "k", "e", "n">>}
HttpStatuses == {200, 404, 500}

\* The data member of a body: null, or a table of field names and items.
ProviderData ==
    {Null,
     [fields |-> <<"ts_code", "close">>, items |-> <<>>],
     [fields |-> <<"ts_code", "close">>, items |-> << <<CodeA, 10>> >>],
     [fields |-> <<"ts_code", "close">>, items |-> << <<CodeA, 10>>, <<CodeB, 0>> >>]}

\* What fetch and response.json() give: fetch rejects; or a response with a
\* status whose body is not JSON; or a response whose body is the provider's
\* {code, msg, data}.
HttpExchanges ==
    {[kind |-> "reject"]}
    \cup {[kind |-> "response", status |-> st, json |-> FALSE] : st \in HttpStatuses}
    \cup {[kind |-> "response", status |-> st, json |-> TRUE,
           body |-> [code |-> c, msg |-> m, data |-> d]] :
              st \in HttpStatuses, c \in ProviderCodes, m \in ProviderMsgs,
              d \in ProviderData}

\* response.ok
ResponseOk(reply) == reply.status >= 200 /\ reply.status <= 299

Threw(message) == [done |-> TRUE, threw |-> TRUE, message |-> message, requests |-> 1]
Returned(data) == [done |-> TRUE, threw |-> FALSE, data |-> data, requests |-> 1]

call_IgnoreCode(reply) ==
    IF reply.kind = "reject" THEN Threw(MsgFetchFailed)
    ELSE IF ~ResponseOk(reply)
    THEN Threw(<<"H", "T", "T", "P", " ", "e", "r", "r", "o", "r", "!", " ", "s", "t", "a", "t", "u", "s", ":", " ">> \o NumStr(reply.status))
    ELSE IF ~reply.json THEN Threw(<<"U", "n", "e", "x", "p", "e", "c", "t", "e", "d", " ", "t", "o", "k", "e", "n">>)
    ELSE Returned(reply.body)

\* call(params): one fetch; the exception of a rejected fetch, of a response
\* that is not ok, of a body that is not JSON, of a code other than 0; else
\* the body.
call(reply) ==
    IF reply.kind = "reject" THEN Threw(MsgFetchFailed)
    ELSE IF ~ResponseOk(reply)
    THEN Threw(<<"H", "T", "T", "P", " ", "e", "r", "r", "o", "r", "!", " ", "s", "t", "a", "t", "u", "s", ":", " ">> \o NumStr(reply.status))
    ELSE IF ~reply.json THEN Threw(<<"U", "n", "e", "x", "p", "e", "c", "t", "e", "d", " ", "t", "o", "k", "e", "n">>)
    ELSE IF reply.body.code # 0
    THEN Threw(MsgTushareApiError \o <<":", " ">> \o reply.body.msg
               \o <<" ", "(", "c", "o", "d", "e", ":", " ">> \o NumStr(reply.body.code) \o <<")">>)
    ELSE Returned(reply.body)

\* transformResponse(response): one object per item, field by field.
transformResponse(response) ==
    IF response.data = Null THEN <<>>
    ELSE [i \in 1..Len(response.data.items) |->
             [f \in {response.data.fields[k] : k \in 1..Len(response.data.fields)} |->
                 response.data.items[i][CHOOSE k \in 1..Len(response.data.fields) :
                                            response.data.fields[k] = f]]]

\* getDailyData and its siblings: the rows of call's response.
CallRows(reply) ==
    LET response == call(reply)
    IN  IF response.threw THEN response
        ELSE [response EXCEPT !.data = transformResponse(response.data)]

CallInit ==
    /\ timeZone = 0
    /\ callIn \in HttpExchanges
    /\ callOut = [done |-> FALSE]
    /\ statsIn = [stocks |-> <<>>]
    /\ statsOut = [done |-> FALSE]
    /\ GenIdle
    /\ CalIdle
    /\ AggIdle

CallSettles ==
    /\ ~callOut.done
    /\ callOut' = CallRows(callIn)
    /\ UNCHANGED <<timeZone, callIn, statsIn, statsOut, genVars, calVars, aggVars>>

CallNext == CallSettles

SpecCall == CallInit /\ [][CallNext]_vars

\* C15: call returns exactly when the response is ok, its body is JSON and
\* its code is 0; a response whose code is not 0 makes the call throw and
\* gives no rows, also when the HTTP status is a success, and then the
\* exception's message holds the provider's msg and its code.
C15_NonZeroCodeThrows ==
    callOut.done =>
        /\ ~callOut.threw <=>
               /\ callIn.kind = "response"
               /\ callIn.status = 200
               /\ callIn.json
               /\ callIn.body.code = 0
        /\ (callIn.kind = "response" /\ callIn.json /\ callIn.body.code # 0) =>
               /\ callOut.threw
               /\ "data" \notin DOMAIN callOut
               /\ callIn.status = 200 =>
                      /\ Includes(callOut.message,
                                  callIn.body.msg \o <<" ", "(", "c", "o", "d", "e", ":", " ">>
                                  \o NumStr(callIn.body.code) \o <<")">>)
                      /\ Includes(callOut.message, MsgTushareApiError)

\* C15 as stated: every response whose body has a code other than 0 makes
\* the call throw an exception whose message holds the provider's msg and
\* code, whatever the HTTP status.
C15_NonZeroCodeCarriesMessage ==
    (callOut.done /\ callIn.kind = "response" /\ callIn.json
     /\ callIn.body.code # 0) =>
        /\ callOut.threw
        /\ Includes(callOut.message,
                    callIn.body.msg \o <<" ", "(", "c", "o", "d", "e", ":", " ">>
                    \o NumStr(callIn.body.code) \o <<")">>)

\* A response of status 200 whose body has code -2001, a message and rows.
C15_Witness ==
    /\ callOut.done
    /\ callIn.kind = "response"
    /\ callIn.status = 200
    /\ callIn.json
    /\ callIn.body.code = -2001
    /\ callIn.body.msg # <<>>
    /\ callIn.body.data # Null
    /\ callOut.threw

(***************************************************************************)
(* The hook and the endpoints together                                     *)
(***************************************************************************)
\* A session of the application: calls of the hook's fetchMonthCalendar, or a
\* request to one of the aggregation endpoints.
AppInit == CalInit

AppNext ==
    \/ CalIdle /\ AggNext
    \/ AggIdle /\ CalNext

SpecApp == AppInit /\ [][AppNext]_vars

\* The number of times api was called within the request.
TimesCalled(api) == Cardinality({i \in 1..Len(upstream) : upstream[i] = api})

\* C16: nothing is retried. A call of TushareClient sends at most one
\* request, so there are never more requests sent than calls made; no
\* interface is called twice within one request, also after its call failed,
\* so a request makes at most three upstream calls; and the calendar fetches
\* started are exactly the caller's requests that missed the cache.
C16_NoRetry ==
    /\ Len(dispatchGaps) <= Len(upstream)
    /\ \A api \in {"stock_basic", "daily", "daily_basic"} : TimesCalled(api) <= 1
    /\ Len(upstream) <= 3
    /\ fetchCount = Cardinality({id \in 1..Len(calls) : calls[id].fetched})
    /\ fetchCount <= Len(calls)

\* A batch request whose quote fetch failed and which then went on to the
\* indicator fetch and its response.
C16_Witness ==
    /\ pc = "done"
    /\ req.endpoint = "batch"
    /\ "daily" \in DOMAIN fetched
    /\ ~fetched["daily"].ok
    /\ upstream = <<"stock_basic", "daily", "daily_basic">>
    /\ Len(dispatchGaps) = 3

(***************************************************************************)
(* Requests with a malformed parameter                                     *)
(***************************************************************************)
\* A date parameter that is present and is not eight decimal digits.
NotEightDigits(date) ==
    /\ date # <<>>
    /\ ~(Len(date) = 8 /\ \A i \in 1..Len(date) :
             date[i] \in {"0", "1", "2", "3", "4", "5", "6", "7", "8", "9"})

\* A code parameter that is present and is not six digits, a dot and SH or SZ.
NotStockCode(code) ==
    /\ code # <<>>
    /\ ~(/\ Len(code) = 9
         /\ \A i \in 1..6 : code[i] \in {"0", "1", "2", "3", "4", "5", "6", "7", "8", "9"}
         /\ code[7] = "."
         /\ code[8] = "S"
         /\ code[9] \in {"H", "Z"})

\* The step ends the request with an error response and no upstream call.
RejectedUnsent ==
    /\ upstream' = <<>>
    /\ inflight' = EmptyMap
    /\ dispatchGaps' = <<>>
    /\ pc' = "done"
    /\ resp'.sent
    /\ ~resp'.success

\* C17: a request whose date parameter is not eight digits, whose code
\* parameter is not six digits and .SH or .SZ, or whose market or exchange
\* is outside its enumeration, ends in an error response with no upstream
\* call made, at each of the four endpoints.
C17_MalformedRejectedUnsent ==
    [][/\ \A market \in MarketParams, trade_date \in TradeDateParams :
              (NotEightDigits(trade_date) \/ market \notin {<<>>, SH, SZ}) =>
                  \A limit \in LimitParams, include_market_data \in BOOLEAN,
                     include_basic_indicators \in BOOLEAN, token \in BOOLEAN :
                      BatchGET(market, trade_date, limit, include_market_data,
                               include_basic_indicators, token)
                      => RejectedUnsent
       /\ \A ts_code \in CodeParams, trade_date \in TradeDateParams,
             start_date \in RangeParams, end_date \in RangeParams :
              (\/ NotEightDigits(trade_date)
               \/ NotEightDigits(start_date)
               \/ NotEightDigits(end_date)
               \/ NotStockCode(ts_code)) =>
                  \A limit \in LimitParams, include_basic \in BOOLEAN, token \in BOOLEAN :
                      MarketGET(ts_code, trade_date, start_date, end_date, limit,
                                include_basic, token)
                      => RejectedUnsent
       /\ \A exch \in ExchangeParams, start_date \in RangeParams,
             end_date \in RangeParams :
              (\/ NotEightDigits(start_date)
               \/ NotEightDigits(end_date)
               \/ exch \notin {<<>>, SSE, SZSE}) =>
                  \A is_open \in IsOpenParams, token \in BOOLEAN :
                      TradeCalGET(exch, start_date, end_date, is_open, token)
                      => RejectedUnsent
       /\ \A ts_code \in CodeParams :
              NotStockCode(ts_code) =>
                  \A freq \in FreqParams, start_date \in TimeParams,
                     end_date \in TimeParams, days \in DaysParams, token \in BOOLEAN :
                      StkMinsGET(ts_code, freq, start_date, end_date, days, token)
                      => RejectedUnsent]_vars

\* A calendar request for an exchange outside SSE and SZSE, answered with an
\* error and no call made.
C17_Witness ==
    /\ req.endpoint = "calendar"
    /\ req.exchange = HKEX
    /\ pc = "done"
    /\ resp.sent
    /\ ~resp.success
    /\ upstream = <<>>

(***************************************************************************)
(* generateBatchStats and getTopIndustries over one record set             *)
(***************************************************************************)
MaxStocks == 3
IndustryTech == <<"T", "e", "c", "h">>
TopParams == {1, 2, TopIndustriesOfBasic, TopIndustries}

\* A merged record: a roster row of the industry, merged with the quote rows
\* and the indicator rows given for it (none, or one).
StatStock(code, industry, dailyRows, basicRows) ==
    mergeStockData([ts_code |-> code, industry |-> industry],
                   IF dailyRows = <<>> THEN Undefined ELSE createDataMap(dailyRows),
                   IF basicRows = <<>> THEN Undefined ELSE createDataMap(basicRows),
                   Date1)

\* An overlay row of the code whose numbers are all n.
StatRow(code, n) == [ts_code |-> code, trade_date |-> Date1, id |-> 1, close |-> n]

StatStocks ==
    {StatStock(CodeA, IndustryBank, <<StatRow(CodeA, 10)>>, <<StatRow(CodeA, 10)>>),
     StatStock(CodeA, IndustryBank, <<StatRow(CodeA, 10)>>, <<>>),
     StatStock(CodeB, IndustryTech, <<StatRow(CodeB, 10)>>, <<StatRow(CodeB, 0)>>),
     StatStock(CodeB, IndustryTech, <<>>, <<StatRow(CodeB, 10)>>),
     StatStock(CodeA, <<>>, <<StatRow(CodeA, 0)>>, <<>>),
     StatStock(CodeB, <<>>, <<>>, <<>>)}

RECURSIVE StockListsUpTo(_)
StockListsUpTo(n) ==
    IF n = 0 THEN {<<>>}
    ELSE LET shorter == StockListsUpTo(n - 1)
         IN  shorter \cup {Append(l, r) : l \in {x \in shorter : Len(x) = n - 1},
                                           r \in StatStocks}

\* The record has the overlay: the fields of a matched row.
HasQuote(stock) == stock.quote["currentPrice"] # Undefined
HasIndicators(stock) == stock.indicators["pe"] # Undefined

\* The metadata GET passes for the record set (lines 130-138): an overlay
\* flag is set when the overlay's map exists, and without the map no record
\* has the overlay.
StatsInputs ==
    {[stocks |-> l,
      metadata |-> [total_basic |-> Len(l), processed |-> Len(l),
                    has_market_data |-> m, has_basic_indicators |-> b,
                    market_data_count |->
                        Cardinality({i \in 1..Len(l) : HasQuote(l[i])}),
                    basic_indicators_count |->
                        Cardinality({i \in 1..Len(l) : HasIndicators(l[i])}),
                    trade_date |-> Date1],
      top |-> t] :
        l \in StockListsUpTo(MaxStocks),
        m \in BOOLEAN, b \in BOOLEAN, t \in TopParams}

StatsInit ==
    /\ timeZone = 0
    /\ callIn = [kind |-> "none"]
    /\ callOut = [done |-> FALSE]
    /\ statsIn \in {in \in StatsInputs :
                       /\ (\E i \in 1..Len(in.stocks) : HasQuote(in.stocks[i]))
                              => in.metadata.has_market_data
                       /\ (\E i \in 1..Len(in.stocks) : HasIndicators(in.stocks[i]))
                              => in.metadata.has_basic_indicators}
    /\ statsOut = [done |-> FALSE]
    /\ GenIdle
    /\ CalIdle
    /\ AggIdle

GenerateStats ==
    /\ ~statsOut.done
    /\ statsOut' = [done |-> TRUE, of |-> "generateBatchStats",
                    stats |-> generateBatchStats(statsIn.stocks, statsIn.metadata)]
    /\ UNCHANGED <<timeZone, callIn, callOut, statsIn, genVars, calVars, aggVars>>

RankIndustries ==
    /\ ~statsOut.done
    /\ statsOut' = [done |-> TRUE, of |-> "getTopIndustries",
                    industries |-> getTopIndustries(statsIn.stocks, statsIn.top)]
    /\ UNCHANGED <<timeZone, callIn, callOut, statsIn, genVars, calVars, aggVars>>

RankIndustriesOfBasic ==
    /\ ~statsOut.done
    /\ statsOut' = [done |-> TRUE, of |-> "getTopIndustriesOfBasic",
                    industries |-> getTopIndustriesOfBasic(statsIn.stocks, statsIn.top)]
    /\ UNCHANGED <<timeZone, callIn, callOut, statsIn, genVars, calVars, aggVars>>

StatsNext == GenerateStats \/ RankIndustries \/ RankIndustriesOfBasic

SpecStats == StatsInit /\ [][StatsNext]_vars

\* Math.round of 100 * count / total for total > 0, computed by search.
NearestPercent(count, total) ==
    CHOOSE p \in 0..100 :
        /\ 2 * total * p <= 200 * count + total
        /\ 200 * count + total < 2 * total * (p + 1)

QuoteCoverage == statsOut.stats.data_quality.market_data_coverage
IndicatorCoverage == statsOut.stats.data_quality.basic_indicators_coverage

\* C18: for a record set that is not empty, the coverage of an overlay is
\* the number of records that have the overlay, over the number of records,
\* as a percentage rounded to the nearest integer.
C18_CoverageIsPopulatedShare ==
    (statsOut.done /\ statsOut.of = "generateBatchStats" /\ Len(statsIn.stocks) > 0) =>
        LET stocks == statsIn.stocks
            quoted == Cardinality({i \in 1..Len(stocks) : HasQuote(stocks[i])})
            indicated == Cardinality({i \in 1..Len(stocks) : HasIndicators(stocks[i])})
        IN  /\ QuoteCoverage = Num(NearestPercent(quoted, Len(stocks)))
            /\ IndicatorCoverage = Num(NearestPercent(indicated, Len(stocks)))

Counted ==
    {i \in 1..Len(statsIn.stocks) :
        statsOut.of = "getTopIndustriesOfBasic" => statsIn.stocks[i].industry # <<>>}
LabelOf(i) ==
    IF statsIn.stocks[i].industry = <<>> THEN IndustryUnknown
    ELSE statsIn.stocks[i].industry
Carrying(label) == {i \in Counted : LabelOf(i) = label}
FirstOccurrence(label) == CHOOSE i \in Carrying(label) : \A j \in Carrying(label) : i <= j

\* C20: the breakdown of N has at most N categories, no label twice, each
\* with the number of records carrying it; the counts do not increase, equal
\* counts stand in the order their labels first occur in the record set, and
\* a label left out is carried by no more records than any label listed.
C20_TopIndustriesRanked ==
    (statsOut.done /\ statsOut.of \in {"getTopIndustries", "getTopIndustriesOfBasic"}) =>
        LET list == statsOut.industries
            labels == {LabelOf(i) : i \in Counted}
            listed == {list[i].industry : i \in 1..Len(list)}
        IN  /\ Len(list) <= statsIn.top
            /\ Len(list) = IF Cardinality(labels) < statsIn.top
                           THEN Cardinality(labels) ELSE statsIn.top
            /\ listed \subseteq labels
            /\ \A i, j \in 1..Len(list) : list[i].industry = list[j].industry => i = j
            /\ \A i \in 1..Len(list) :
                   list[i].count = Cardinality(Carrying(list[i].industry))
            /\ \A i \in 1..(Len(list) - 1) :
                   \/ list[i].count > list[i + 1].count
                   \/ /\ list[i].count = list[i + 1].count
                      /\ FirstOccurrence(list[i].industry)
                             < FirstOccurrence(list[i + 1].industry)
            /\ \A out \in labels \ listed : \A i \in 1..Len(list) :
                   Cardinality(Carrying(out)) <= list[i].count

\* Three records of three labels, one each, ranked for the top 2: the two
\* labels seen first are listed, in that order.
C20_Witness ==
    /\ statsOut.done
    /\ statsOut.of = "getTopIndustries"
    /\ statsIn.top = 2
    /\ Len(statsIn.stocks) = 3
    /\ Cardinality({IndustryOf(statsIn.stocks[i]) : i \in 1..3}) = 3
    /\ Len(statsOut.industries) = 2

(***************************************************************************)
(* Overlapping calls of fetchMonthCalendar                                 *)
(***************************************************************************)
\* Calls i and j ran concurrently: the later was made while the earlier's
\* fetch was in flight.
Overlapped(i, j) ==
    \/ i \in calls[j].inFlightAtStart
    \/ j \in calls[i].inFlightAtStart

\* Call i fetched, generated an entry and returned it.
Completed(i) == calls[i].status = "returned" /\ calls[i].generated

\* The completed fetches of a key, and the object of the one that completed
\* last: objects are created in the order of completion.
CompletedFor(key) == {k \in CallIds : Completed(k) /\ calls[k].key = key}
LatestEntry(key) ==
    CHOOSE r \in {calls[k].result : k \in CompletedFor(key)} :
        \A k \in CompletedFor(key) : calls[k].result <= r

\* C21: two calls of different keys that ran concurrently and have both
\* completed with success leave, once their cache updates are rendered and
\* with no clearCache called, an entry under each key, and it is the entry
\* that key's call generated from its own year, month and response (the
\* entry of the key's latest completed fetch, when the key was fetched again).
C21_ConcurrentKeysIndependent ==
    \A i, j \in CallIds :
        (/\ calls[i].key # calls[j].key
         /\ Overlapped(i, j)
         /\ Completed(i) /\ Completed(j)
         /\ pendingUpdates = <<>>
         /\ ~cleared.called) =>
            /\ MapGet(calendarData, calls[i].key) = LatestEntry(calls[i].key)
            /\ MapGet(calendarData, calls[j].key) = LatestEntry(calls[j].key)
            /\ CompletedFor(calls[i].key) = {i} =>
                   MapGet(calendarData, calls[i].key) = calls[i].result
            /\ CompletedFor(calls[j].key) = {j} =>
                   MapGet(calendarData, calls[j].key) = calls[j].result
            /\ calls[i].result # calls[j].result
            /\ heap[calls[i].result].year = calls[i].year
            /\ heap[calls[i].result].month = calls[i].month

\* Two calls of the two exchanges' keys, the second made while the first was
\* fetching, the first completing last, both rendered.
C21_Witness ==
    /\ Len(calls) = 2
    /\ calls[1].key # calls[2].key
    /\ 1 \in calls[2].inFlightAtStart
    /\ Completed(1) /\ Completed(2)
    /\ calls[2].result < calls[1].result
    /\ pendingUpdates = <<>>
    /\ ~cleared.called
    /\ DOMAIN calendarData = {calls[1].key, calls[2].key}

\* C22: at the market-data endpoint with the indicators requested, when the
\* indicator fetch fails and the quote fetch answers, the response is a
\* success holding every quote row, after the limit.
C22_IndicatorFailureIsolated ==
    (/\ req.endpoint = "market"
     /\ pc = "done"
     /\ req.include_basic
     /\ Raised("daily_basic")
     /\ Answered("daily")) =>
        /\ resp.success
        /\ Len(resp.data) = Len(ApplyLimit(fetched["daily"].rows, req.limit))

\* C23: every day of the entry the cache holds under the key of an exchange
\* has that exchange as its exchange attribute.
C23_DaysCarryKeyExchange ==
    \A y \in CalYears, m \in CalMonths, x \in Exchanges :
        MapHas(calendarData, getMonthKey(y, m, x)) =>
            LET dates == DatesOf(heap[calendarData[getMonthKey(y, m, x)]])
            IN  \A d \in 1..Len(dates) : dates[d].exchange = x

\* The characters of a string other than the hyphens.
RECURSIVE WithoutHyphens(_)
WithoutHyphens(str) ==
    IF str = <<>> THEN <<>>
    ELSE (IF Head(str) = "-" THEN <<>> ELSE <<Head(str)>>) \o WithoutHyphens(Tail(str))

\* C24: in every time zone, the ISO date string of a generated day names the
\* day's own calendar date, which is also the day of its YYYYMMDD trade date.
C24_IsoStringNamesTheDay ==
    genOut.done =>
        \A i \in 1..Len(genOut.dates) :
            LET d == genOut.dates[i]
            IN  /\ d.dateString = ToStr(d.date.year) \o <<"-">>
                                      \o PadStart2(ToStr(d.date.month)) \o <<"-">>
                                      \o PadStart2(ToStr(d.date.day))
                /\ WithoutHyphens(d.dateString) = d.tradeDate

\* The step ends the request with the response of a validation error.
AnsweredValidationError ==
    /\ resp'.sent
    /\ ~resp'.success
    /\ resp'.code = "VALIDATION_ERROR"
    /\ resp'.status = 400

\* C25: a request that RequestValidator.dateFormat or stockCode rejects is
\* answered VALIDATION_ERROR with status 400, whatever the rejected value
\* is: the batch endpoint's trade_date, the dates and the code of the
\* market-data endpoint, the dates of the calendar endpoint, the code of the
\* stk-mins endpoint.
C25_RejectedIsValidationError ==
    [][/\ \A market \in {<<>>, SH}, trade_date \in TradeDateParams :
              NotEightDigits(trade_date) =>
                  \A limit \in LimitParams, include_market_data \in BOOLEAN,
                     include_basic_indicators \in BOOLEAN, token \in BOOLEAN :
                      BatchGET(market, trade_date, limit, include_market_data,
                               include_basic_indicators, token)
                      => AnsweredValidationError
       /\ \A ts_code \in CodeParams, trade_date \in TradeDateParams,
             start_date \in RangeParams, end_date \in RangeParams :
              (\/ NotEightDigits(trade_date)
               \/ NotEightDigits(start_date)
               \/ NotEightDigits(end_date)
               \/ NotStockCode(ts_code)) =>
                  \A limit \in LimitParams, include_basic \in BOOLEAN, token \in BOOLEAN :
                      MarketGET(ts_code, trade_date, start_date, end_date, limit,
                                include_basic, token)
                      => AnsweredValidationError
       /\ \A exch \in ExchangeParams, start_date \in RangeParams,
             end_date \in RangeParams :
              (NotEightDigits(start_date) \/ NotEightDigits(end_date)) =>
                  \A is_open \in IsOpenParams, token \in BOOLEAN :
                      TradeCalGET(exch, start_date, end_date, is_open, token)
                      => AnsweredValidationError
       /\ \A ts_code \in CodeParams :
              NotStockCode(ts_code) =>
                  \A freq \in FreqParams, start_date \in TimeParams,
                     end_date \in TimeParams, days \in DaysParams, token \in BOOLEAN :
                      StkMinsGET(ts_code, freq, start_date, end_date, days, token)
                      => AnsweredValidationError]_vars

(***************************************************************************)
(* The hook used for one exchange over several months                      *)
(***************************************************************************)
MonthsShown == {2, 3}

MonthsNext ==
    \/ \E y \in CalYears, m \in MonthsShown, f \in BOOLEAN : StartCall(y, m, SSE, f)
    \/ \E id \in 1..Len(calls) :
          \E data \in CalApiData(calls[id].year, calls[id].month) :
             FetchSucceeds(id, data)
    \/ \E id \in 1..Len(calls), kind \in FetchFailures : FetchFails(id, kind)
    \/ ClearCache
    \/ Render

SpecMonths == CalInit /\ [][MonthsNext]_vars

\* The days of the month that the response marks open: the last marker of
\* the day's YYYYMMDD date has is_open 1.
MarkedOpen(monthData) ==
    {d \in 1..MonthLength(monthData.year, monthData.month) :
        LET key == ToStr(monthData.year) \o PadStart2(ToStr(monthData.month))
                       \o PadStart2(ToStr(d))
            hits == {i \in 1..Len(monthData.data) : monthData.data[i].cal_date = key}
        IN  /\ hits # {}
            /\ \A i \in hits : (\A j \in hits : j <= i) => monthData.data[i].is_open = 1}

\* C26: every entry of the rendered cache stands under the key of its own
\* year and month, has one day for each day of that month, in order, and
\* its trading-day count is the number of its days that are trading days,
\* which are the days the response marks open.
C26_EntryMatchesKey ==
    \A k \in DOMAIN calendarData :
        LET entry == heap[calendarData[k]]
            dates == DatesOf(entry)
        IN  /\ \E x \in Exchanges : k = getMonthKey(entry.year, entry.month, x)
            /\ Len(dates) = MonthLength(entry.year, entry.month)
            /\ \A d \in 1..Len(dates) :
                   /\ dates[d].date.year = entry.year
                   /\ dates[d].date.month = entry.month
                   /\ dates[d].date.day = d
            /\ TradingDaysOf(entry) = Cardinality({d \in 1..Len(dates) : dates[d].isTrading})
            /\ TradingDaysOf(entry) = Cardinality(MarkedOpen(entry))

\* The cache holds February and March 2024, February with 29 days and one
\* trading day.
C26_Witness ==
    /\ MapHas(calendarData, getMonthKey(2024, 2, SSE))
    /\ MapHas(calendarData, getMonthKey(2024, 3, SSE))
    /\ Len(DatesOf(heap[calendarData[getMonthKey(2024, 2, SSE)]])) = 29
    /\ TradingDaysOf(heap[calendarData[getMonthKey(2024, 2, SSE)]]) = 1

(***************************************************************************)
(* What a call of fetchMonthCalendar changes                               *)
(***************************************************************************)
\* The cache as it stands once every queued setCalendarData has been applied.
CacheAfterUpdates == ApplyUpdates(calendarData, pendingUpdates)

\* C27: a call of fetchMonthCalendar changes the cache under its own key
\* only.  Starting a call and a failing fetch leave the cache as it is; a
\* successful fetch sets its key to a new object and leaves every other key
\* with the entry it had; no step changes an object that already exists.
C27_FetchChangesOnlyItsKey ==
    [][/\ Len(heap') >= Len(heap)
       /\ \A r \in 1..Len(heap) : heap'[r] = heap[r]
       /\ \A id \in 1..Len(calls') :
             \/ /\ id > Len(calls)
                /\ calendarData' = calendarData
                /\ pendingUpdates' = pendingUpdates
             \/ /\ id <= Len(calls)
                /\ calls'[id] = calls[id]
             \/ /\ id <= Len(calls)
                /\ calls[id].status = "fetching"
                /\ calls'[id].status = "threw"
                /\ calendarData' = calendarData
                /\ pendingUpdates' = pendingUpdates
             \/ /\ id <= Len(calls)
                /\ calls[id].status = "fetching"
                /\ calls'[id].status = "returned"
                /\ calls'[id].result = Len(heap) + 1
                /\ Len(heap') = Len(heap) + 1
                /\ calendarData' = calendarData
                /\ CacheAfterUpdates' =
                      MapSet(CacheAfterUpdates, calls[id].key, calls'[id].result)
                /\ \A k \in DOMAIN CacheAfterUpdates :
                      k # calls[id].key =>
                         /\ MapHas(CacheAfterUpdates', k)
                         /\ CacheAfterUpdates'[k] = CacheAfterUpdates[k]]_vars

\* A forced refresh of a cached month has completed and been rendered: the
\* cache holds the new object, and the object the first call returned is
\* still what that call generated.
C27_Witness ==
    \E i, j \in CallIds :
        /\ i < j
        /\ calls[i].key = calls[j].key
        /\ calls[j].force /\ calls[j].cachedAtStart
        /\ calls[i].generated /\ calls[j].generated
        /\ pendingUpdates = <<>>
        /\ MapGet(calendarData, calls[j].key) = calls[j].result
        /\ calls[i].result # calls[j].result
        /\ heap[calls[i].result].lastUpdate = calls[i].result
        /\ heap[calls[i].result].data # heap[calls[j].result].data

\* Of two completed calls, the one whose fetch completed last.
CompletedLast(i, j) == IF calls[i].result > calls[j].result THEN i ELSE j

\* C28: two forced refreshes of one key that ran concurrently and have both
\* completed leave, once rendered and with no clearCache called, the whole
\* entry of the fetch that completed last under the key; each call returned
\* the object built from its own fetch, and the two objects are distinct.
\* (When the key was refreshed by further calls, the entry is the whole
\* entry of the latest completed of them all.)
C28_LastRefreshWins ==
    \A i, j \in CallIds :
        (/\ i # j
         /\ calls[i].key = calls[j].key
         /\ calls[i].force /\ calls[j].force
         /\ Overlapped(i, j)
         /\ Completed(i) /\ Completed(j)
         /\ pendingUpdates = <<>>
         /\ ~cleared.called) =>
            /\ MapGet(calendarData, calls[i].key) = LatestEntry(calls[i].key)
            /\ CompletedFor(calls[i].key) = {i, j} =>
                   MapGet(calendarData, calls[i].key) = calls[CompletedLast(i, j)].result
            /\ calls[i].result # calls[j].result
            /\ \A c \in {i, j} :
                  /\ heap[calls[c].result].lastUpdate = calls[c].result
                  /\ heap[calls[c].result].year = calls[c].year
                  /\ heap[calls[c].result].month = calls[c].month
                  /\ heap[calls[c].result].exch = calls[c].exch

\* Two overlapping forced refreshes of one key completed in the reverse of
\* the order they were made, with different responses; the cache holds the
\* entry of the first call, which completed last.
C28_Witness ==
    \E i, j \in CallIds :
        /\ i < j
        /\ calls[i].key = calls[j].key
        /\ calls[i].force /\ calls[j].force
        /\ i \in calls[j].inFlightAtStart
        /\ Completed(i) /\ Completed(j)
        /\ calls[i].result > calls[j].result
        /\ heap[calls[i].result].data # heap[calls[j].result].data
        /\ pendingUpdates = <<>>
        /\ ~cleared.called
        /\ MapGet(calendarData, calls[i].key) = calls[i].result

\* The calls made after the last clearCache.
StartedAfterClear == {id \in CallIds : id > cleared.calls}

\* C29: once clearCache has been called and the updates are rendered, every
\* entry of the cache was generated by a call made after the clear.
C29_ClearedCacheHoldsOnlyLaterFetches ==
    (cleared.called /\ pendingUpdates = <<>>) =>
        \A k \in DOMAIN calendarData :
            \E id \in StartedAfterClear :
                /\ calls[id].generated
                /\ calls[id].key = k
                /\ calls[id].result = calendarData[k]

\* The calls whose fetch is in flight.
FetchesInFlight == {id \in CallIds : calls[id].status = "fetching"}

\* C30: in every rendered state the loading flag is true exactly when at
\* least one fetch is in flight.
C30_LoadingWhileAnyFetchInFlight ==
    (loading.next = loading.shown) =>
        (loading.shown <=> FetchesInFlight # {})

====
